---- MODULE Spec2Model ----
(***************************************************************************)
(* Model of package tripn: the Turtle Reader (ReadAppend and the           *)
(* recognizers it drives) and the helpers of Triple.                       *)
(*                                                                         *)
(* Text is modelled byte by byte: a []byte or string of the program is a   *)
(* sequence of one-character strings.  Index helpers take the zero-based   *)
(* offsets of the Go code, so that line[i], line[a:b] and line[a:] read as *)
(* in the source.                                                          *)
(***************************************************************************)
EXTENDS Integers, Sequences, FiniteSets, TLC

VARIABLES
    r,        \* the Reader: its fields, with R the bytes not yet read from the stream
    dst,      \* the caller's sink of triples
    err,      \* the error of the most recent ReadAppend call
    calls,    \* number of ReadAppend calls made
    marks,    \* Len(dst) before each call, then after the last one
    errs,     \* the error of every call, in order
    source,   \* the whole input stream as handed to the Reader
    entropy,  \* the hexadecimal digits that the clock and rand.Uint32 give at the first mint
    probe,    \* the most recent IsSkolemIRI call: its argument and its result
    expect    \* what the stream means, as written down when the stream was made

vars == <<r, dst, err, calls, marks, errs, source, entropy, probe, expect>>

(***************************************************************************)
(* Bytes and slices                                                        *)
(***************************************************************************)
At(ln, i) == ln[i + 1]

Slice(ln, a, b) == SubSeq(ln, a + 1, b)

From(ln, a) == SubSeq(ln, a + 1, Len(ln))

\* the zero-based offset of the first byte of ln at or after i that is in S, or -1
RECURSIVE FirstIn(_, _, _)
FirstIn(ln, i, S) ==
    IF i >= Len(ln) THEN -1
    ELSE IF At(ln, i) \in S THEN i
    ELSE FirstIn(ln, i + 1, S)

WS == {" ", "\t", "\r", "\n"}

Digits == {"0", "1", "2", "3", "4", "5", "6", "7", "8", "9"}

UpperLetters == {"A", "B", "C", "D", "E", "F", "G", "H", "I", "J", "K", "L", "M", "N", "O", "P", "Q", "R", "S", "T", "U", "V", "W", "X", "Y", "Z"}

LowerLetters == {"a", "b", "c", "d", "e", "f", "g", "h", "i", "j", "k", "l", "m", "n", "o", "p", "q", "r", "s", "t", "u", "v", "w", "x", "y", "z"}

\* a byte that is no part of any valid UTF-8 encoding (0xFF)
InvalidByte == "\\xFF"

\* bytes at or below 0x20 that the inputs can hold
ControlBytes == {" ", "\t", "\r", "\n", "\\b", "\\f"}

HasPrefix(s, prefix) ==
    /\ Len(prefix) <= Len(s)
    /\ SubSeq(s, 1, Len(prefix)) = prefix

(***************************************************************************)
(* Constants of the package                                                *)
(***************************************************************************)
skolemIRIRoot == <<"w", "e", "b", "+", "s", "k", "o", "l", "e", "m", ":", "/", "/", "q", "u", "i", "e", "s", ".", "n", "e", "t", "/">>

XSDString == <<"h", "t", "t", "p", ":", "/", "/", "w", "w", "w", ".", "w", "3", ".", "o", "r", "g", "/", "2", "0", "0", "1", "/", "X", "M", "L", "S", "c", "h", "e", "m", "a", "#", "s", "t", "r", "i", "n", "g">>

XSDBoolean == <<"h", "t", "t", "p", ":", "/", "/", "w", "w", "w", ".", "w", "3", ".", "o", "r", "g", "/", "2", "0", "0", "1", "/", "X", "M", "L", "S", "c", "h", "e", "m", "a", "#", "b", "o", "o", "l", "e", "a", "n">>

XSDInteger == <<"h", "t", "t", "p", ":", "/", "/", "w", "w", "w", ".", "w", "3", ".", "o", "r", "g", "/", "2", "0", "0", "1", "/", "X", "M", "L", "S", "c", "h", "e", "m", "a", "#", "i", "n", "t", "e", "g", "e", "r">>

XSDDecimal == <<"h", "t", "t", "p", ":", "/", "/", "w", "w", "w", ".", "w", "3", ".", "o", "r", "g", "/", "2", "0", "0", "1", "/", "X", "M", "L", "S", "c", "h", "e", "m", "a", "#", "d", "e", "c", "i", "m", "a", "l">>

XSDDouble == <<"h", "t", "t", "p", ":", "/", "/", "w", "w", "w", ".", "w", "3", ".", "o", "r", "g", "/", "2", "0", "0", "1", "/", "X", "M", "L", "S", "c", "h", "e", "m", "a", "#", "d", "o", "u", "b", "l", "e">>

RDFLangString == <<"h", "t", "t", "p", ":", "/", "/", "w", "w", "w", ".", "w", "3", ".", "o", "r", "g", "/", "1", "9", "9", "9", "/", "0", "2", "/", "2", "2", "-", "r", "d", "f", "-", "s", "y", "n", "t", "a", "x", "-", "n", "s", "#", "l", "a", "n", "g", "S", "t", "r", "i", "n", "g">>

RDFType == <<"h", "t", "t", "p", ":", "/", "/", "w", "w", "w", ".", "w", "3", ".", "o", "r", "g", "/", "1", "9", "9", "9", "/", "0", "2", "/", "2", "2", "-", "r", "d", "f", "-", "s", "y", "n", "t", "a", "x", "-", "n", "s", "#", "t", "y", "p", "e">>

(***************************************************************************)
(* Errors                                                                  *)
(***************************************************************************)
NoErr == [kind |-> "nil", LineNo |-> 0, Reason |-> ""]

EOF == [kind |-> "EOF", LineNo |-> 0, Reason |-> ""]

\* io.ErrUnexpectedEOF, bare or wrapped with a reason by fmt.Errorf("%w: ...")
UnexpectedEOF(reason) == [kind |-> "UnexpectedEOF", LineNo |-> 0, Reason |-> reason]

syntaxErr(rd, reason) == [kind |-> "SyntaxError", LineNo |-> rd.lineNo, Reason |-> reason]

\* the *url.Error that url.Parse returns
URLError(reason) == [kind |-> "URLError", LineNo |-> 0, Reason |-> reason]

\* a run-time panic of the call
Panic(reason) == [kind |-> "panic", LineNo |-> 0, Reason |-> reason]

\* the call never returns
Hang(reason) == [kind |-> "hang", LineNo |-> 0, Reason |-> reason]

IsNil(e) == e.kind = "nil"

IsEOF(e) == e.kind = "EOF"

(***************************************************************************)
(* net/url as the Reader uses it: url.Parse, URL.ResolveReference and   *)
(* URL.String.  The inputs hold no '?', '%', '@' or '[' inside an IRI   *)
(* reference, so query, percent-escapes and userinfo have no part here.    *)
(***************************************************************************)
UpperSeq == <<"A", "B", "C", "D", "E", "F", "G", "H", "I", "J", "K", "L", "M", "N", "O", "P", "Q", "R", "S", "T", "U", "V", "W", "X", "Y", "Z">>

LowerSeq == <<"a", "b", "c", "d", "e", "f", "g", "h", "i", "j", "k", "l", "m", "n", "o", "p", "q", "r", "s", "t", "u", "v", "w", "x", "y", "z">>

ToLowerByte(c) ==
    IF c \in UpperLetters
    THEN LowerSeq[CHOOSE i \in 1..26 : UpperSeq[i] = c]
    ELSE c

ToLower(s) == [i \in 1..Len(s) |-> ToLowerByte(s[i])]

\* strings.IndexByte: the zero-based offset of the first c in s, or -1
IndexByte(s, c) == FirstIn(s, 0, {c})

\* strings.LastIndexByte
LastIndexByte(s, c) ==
    IF \E i \in 1..Len(s) : s[i] = c
    THEN (CHOOSE i \in 1..Len(s) : s[i] = c /\ \A j \in (i + 1)..Len(s) : s[j] # c) - 1
    ELSE -1

\* strings.Cut on a one-byte separator
CutBefore(s, c) == IF IndexByte(s, c) < 0 THEN s ELSE Slice(s, 0, IndexByte(s, c))

CutAfter(s, c) == IF IndexByte(s, c) < 0 THEN <<>> ELSE From(s, IndexByte(s, c) + 1)

NoURL == [set |-> FALSE, Scheme |-> <<>>, Opaque |-> <<>>, Host |-> <<>>, Path |-> <<>>, Fragment |-> <<>>, OmitHost |-> FALSE]

\* url.getScheme: [ok, scheme, rest]
RECURSIVE getScheme(_, _)
getScheme(rawURL, i) ==
    IF i >= Len(rawURL) THEN [ok |-> TRUE, scheme |-> <<>>, rest |-> rawURL]
    ELSE LET c == At(rawURL, i) IN
         CASE c \in UpperLetters \cup LowerLetters -> getScheme(rawURL, i + 1)
           [] c \in Digits \cup {"+", "-", "."} ->
                IF i = 0 THEN [ok |-> TRUE, scheme |-> <<>>, rest |-> rawURL]
                ELSE getScheme(rawURL, i + 1)
           [] c = ":" ->
                IF i = 0 THEN [ok |-> FALSE, scheme |-> <<>>, rest |-> <<>>]
                ELSE [ok |-> TRUE, scheme |-> Slice(rawURL, 0, i), rest |-> From(rawURL, i + 1)]
           [] OTHER -> [ok |-> TRUE, scheme |-> <<>>, rest |-> rawURL]

\* url.Parse: [ok, url]
urlParse(rawURL) ==
    LET parsed(gs, url0) ==
            IF ~gs.ok THEN [ok |-> FALSE, url |-> NoURL]
            ELSE IF ~HasPrefix(gs.rest, <<"/">>)
            THEN IF url0.Scheme # <<>>
                 THEN [ok |-> TRUE, url |-> [url0 EXCEPT !.Opaque = gs.rest]]
                 ELSE IF IndexByte(CutBefore(gs.rest, "/"), ":") >= 0
                      THEN [ok |-> FALSE, url |-> NoURL]
                      ELSE [ok |-> TRUE, url |-> [url0 EXCEPT !.Path = gs.rest]]
            ELSE IF HasPrefix(gs.rest, <<"/", "/">>) /\ (url0.Scheme # <<>> \/ ~HasPrefix(gs.rest, <<"/", "/", "/">>))
            THEN LET auth == From(gs.rest, 2)
                     host == CutBefore(auth, "/")
                     path == IF IndexByte(auth, "/") < 0 THEN <<>> ELSE From(auth, IndexByte(auth, "/"))
                 IN  IF IndexByte(host, ":") >= 0 /\ \E k \in 1..Len(host) : host[k] \notin Digits /\ k - 1 > LastIndexByte(host, ":")
                     THEN [ok |-> FALSE, url |-> NoURL]
                     ELSE [ok |-> TRUE, url |-> [url0 EXCEPT !.Host = host, !.Path = path]]
            ELSE [ok |-> TRUE, url |-> [url0 EXCEPT !.Path = gs.rest, !.OmitHost = (url0.Scheme # <<>>)]]
        scheme(gs) == parsed(gs, [NoURL EXCEPT !.set = TRUE, !.Scheme = ToLower(gs.scheme),
                                                !.Fragment = CutAfter(rawURL, "#")])
    IN  scheme(getScheme(CutBefore(rawURL, "#"), 0))

\* the dot-segment loop of url.resolvePath: out holds what follows the leading '/'
RECURSIVE removeDots(_, _, _)
removeDots(remaining, out, first) ==
    LET found == IndexByte(remaining, "/") >= 0
        elem  == CutBefore(remaining, "/")
        rest  == CutAfter(remaining, "/")
        dot   == elem = <<".">>
        dots  == elem = <<".", ".">>
        out1  == IF dot THEN out
                 ELSE IF dots THEN (IF LastIndexByte(out, "/") < 0 THEN <<>> ELSE Slice(out, 0, LastIndexByte(out, "/")))
                 ELSE IF first THEN out \o elem ELSE out \o <<"/">> \o elem
        first1 == IF dot THEN FALSE
                  ELSE IF dots THEN (IF LastIndexByte(out, "/") < 0 THEN TRUE ELSE first)
                  ELSE FALSE
    IN  IF found THEN removeDots(rest, out1, first1)
        ELSE IF dot \/ dots THEN out1 \o <<"/">> ELSE out1

\* url.resolvePath
resolvePath(base, ref) ==
    LET full == IF ref = <<>> THEN base
                ELSE IF ref[1] # "/" THEN Slice(base, 0, LastIndexByte(base, "/") + 1) \o ref
                ELSE ref
        rooted(d) == IF Len(d) > 1 /\ d[2] = "/" THEN From(d, 1) ELSE d
    IN  IF full = <<>> THEN <<>>
        ELSE rooted(<<"/">> \o removeDots(full, <<>>, TRUE))

\* URL.ResolveReference for a reference without scheme
ResolveReference(u, ref) ==
    LET url == [ref EXCEPT !.Scheme = IF ref.Scheme = <<>> THEN u.Scheme ELSE ref.Scheme] IN
    IF ref.Scheme # <<>> \/ ref.Host # <<>>
    THEN [url EXCEPT !.Path = resolvePath(ref.Path, <<>>)]
    ELSE IF ref.Opaque # <<>>
    THEN [url EXCEPT !.Host = <<>>, !.Path = <<>>]
    ELSE LET url1 == IF ref.Path = <<>> /\ ref.Fragment = <<>>
                     THEN [url EXCEPT !.Fragment = u.Fragment]
                     ELSE url
         IN  IF ref.Path = <<>> /\ u.Opaque # <<>>
             THEN [url1 EXCEPT !.Opaque = u.Opaque, !.Host = <<>>, !.Path = <<>>]
             ELSE [url1 EXCEPT !.Host = u.Host, !.Path = resolvePath(u.Path, ref.Path)]

\* URL.String
urlString(u) ==
    LET scheme == IF u.Scheme # <<>> THEN u.Scheme \o <<":">> ELSE <<>>
        auth   == IF u.Scheme # <<>> \/ u.Host # <<>>
                  THEN IF u.OmitHost /\ u.Host = <<>> THEN <<>>
                       ELSE (IF u.Host # <<>> \/ u.Path # <<>> THEN <<"/", "/">> ELSE <<>>) \o u.Host
                  ELSE <<>>
        slash  == IF u.Path # <<>> /\ u.Path[1] # "/" /\ u.Host # <<>> THEN <<"/">> ELSE <<>>
        dotsl  == IF scheme \o auth \o slash = <<>> /\ IndexByte(CutBefore(u.Path, "/"), ":") >= 0
                  THEN <<".", "/">> ELSE <<>>
        body   == IF u.Opaque # <<>> THEN u.Opaque ELSE auth \o slash \o dotsl \o u.Path
        frag   == IF u.Fragment # <<>> THEN <<"#">> \o u.Fragment ELSE <<>>
    IN  scheme \o body \o frag

(***************************************************************************)
(* The line buffer                                                         *)
(***************************************************************************)
\* capacity of the bufio.Reader the caller hands to the Reader
BufSize == 96

\* bufio.Reader.ReadSlice('\n') on the unread bytes R: [line, rest, err]
ReadSlice(R) ==
    LET i == IndexByte(R, "\n") IN
    IF \E k \in 1..BufSize : k <= Len(R) /\ R[k] = "\n"
    THEN [line |-> Slice(R, 0, i + 1), rest |-> From(R, i + 1), err |-> "nil"]
    ELSE IF Len(R) >= BufSize
    THEN [line |-> Slice(R, 0, BufSize), rest |-> From(R, BufSize), err |-> "ErrBufferFull"]
    ELSE [line |-> R, rest |-> <<>>, err |-> "EOF"]

\* utf8.Valid
utf8Valid(ln) == \A i \in 1..Len(ln) : ln[i] # InvalidByte

\* lead skips whitespace and comments in a line
RECURSIVE lead(_)
lead(ln) ==
    IF ln = <<>> THEN <<>>
    ELSE CASE ln[1] \in {" ", "\t", "\r"} -> lead(Tail(ln))
           [] ln[1] \in {"#", "\n"} -> <<>>
           [] OTHER -> ln

\* the switch of Reader.line on what ReadSlice returned: [r, line, err]
RECURSIVE lineLoop(_, _)
lineRead(rd, rs) ==
    CASE rs.err = "nil" \/ (rs.err = "EOF" /\ Len(rs.line) # 0) ->
           IF ~utf8Valid(rs.line)
           THEN [r |-> [rd EXCEPT !.R = rs.rest, !.lineNo = @ + 1, !.pending = rs.line], line |-> <<>>,
                 err |-> syntaxErr([rd EXCEPT !.lineNo = @ + 1], "invalid UTF-8")]
           ELSE lineLoop([rd EXCEPT !.R = rs.rest, !.lineNo = @ + 1], rs.line)
      [] rs.err = "ErrBufferFull" ->
           [r |-> [rd EXCEPT !.R = rs.rest, !.pending = rs.line], line |-> <<>>,
            err |-> syntaxErr(rd, "line too long")]
      [] OTHER ->
           [r |-> [rd EXCEPT !.R = rs.rest, !.pending = rs.line], line |-> <<>>, err |-> EOF]

\* the loop of Reader.line, entered with the local variable line
lineLoop(rd, ln) ==
    IF Len(lead(ln)) # 0 THEN [r |-> rd, line |-> lead(ln), err |-> NoErr]
    ELSE lineRead(rd, ReadSlice(rd.R))

\* Reader.line
line(rd) == lineLoop(rd, rd.pending)

\* Reader.lineContinue
lineContinue(rd, remainder) ==
    IF Len(lead(remainder)) # 0 THEN [r |-> rd, line |-> lead(remainder), err |-> NoErr]
    ELSE [line(rd) EXCEPT !.err = IF IsEOF(@) THEN UnexpectedEOF("") ELSE @]

(***************************************************************************)
(* Skolem IRIs                                                             *)
(***************************************************************************)
\* a variant that mints at every use
skolemIRIRootAnew(rd) == [rd EXCEPT !.skolemIRICache = @ \o skolemIRIRoot \o entropy \o <<"/">>]

\* Reader.skolemIRIRoot: the Reader with its cache set
skolemIRIRootOf(rd) ==
    IF rd.skolemIRICache = <<>>
    THEN [rd EXCEPT !.skolemIRICache = skolemIRIRoot \o entropy \o <<"/">>]
    ELSE rd

\* IsSkolemIRI: strings.HasPrefix(skolemIRIRoot, s), with the arguments in the
\* order of the source
IsSkolemIRI(s) == HasPrefix(skolemIRIRoot, s)

\* strconv of a small natural number, as fmt's %d prints it
RECURSIVE Itoa(_)
Itoa(n) ==
    LET d == <<At(<<"0", "1", "2", "3", "4", "5", "6", "7", "8", "9">>, n % 10)>> IN
    IF n < 10 THEN d ELSE Itoa(n \div 10) \o d

(***************************************************************************)
(* Directives and IRI references                                           *)
(***************************************************************************)
\* the grave accent (0x60), which a TLA+ string cannot hold
Backtick == "\\x60"

IllegalInIRI == {"<", "\"", "{", "}", "|", "^", Backtick}

\* the '>' case of Reader.inIRI with l what url.Parse made of the reference
inIRIParsed(rd, IRI, l, rest) ==
    IF l.ok /\ l.url.Scheme = <<>>
    THEN IF ~rd.BaseIRI.set
         THEN [r |-> rd, IRI |-> <<>>, line |-> <<>>, err |-> syntaxErr(rd, "relative reference without base IRI")]
         ELSE [r |-> rd, IRI |-> urlString(ResolveReference(rd.BaseIRI, l.url)), line |-> rest, err |-> NoErr]
    ELSE [r |-> rd, IRI |-> IRI, line |-> rest, err |-> IF l.ok THEN NoErr ELSE URLError("parse")]

\* Reader.inIRI: [r, IRI, line, err]
inIRI(rd, ln) ==
    LET i == FirstIn(ln, 1, {">", "\\"} \cup IllegalInIRI \cup ControlBytes)
        fail(e) == [r |-> rd, IRI |-> <<>>, line |-> <<>>, err |-> e]
    IN  IF i < 0 THEN fail(UnexpectedEOF("URI reference interupted"))
        ELSE CASE At(ln, i) = ">" -> inIRIParsed(rd, Slice(ln, 1, i), urlParse(Slice(ln, 1, i)), From(ln, i + 1))
               [] At(ln, i) \in IllegalInIRI -> fail(syntaxErr(rd, "illegal character in IRI reference"))
               [] At(ln, i) = "\\" -> fail(Panic("TODO: Unicode escape"))
               [] OTHER -> fail(syntaxErr(rd, "control character in IRI reference"))

\* Reader.inToken: [line, err]
RECURSIVE inTokenFrom(_, _, _, _)
inTokenFrom(rd, ln, token, i) ==
    IF i >= Len(token) THEN [line |-> From(ln, Len(token)), err |-> NoErr]
    ELSE IF i >= Len(ln) THEN [line |-> <<>>, err |-> UnexpectedEOF("token interrupted")]
    ELSE IF At(ln, i) # At(token, i) THEN [line |-> <<>>, err |-> syntaxErr(rd, "unknown token")]
    ELSE inTokenFrom(rd, ln, token, i + 1)

inToken(rd, ln, token) == inTokenFrom(rd, ln, token, 1)

\* a variant that keeps a base IRI once it is set
setBaseOnce(rd, s) ==
    IF rd.BaseIRI.set THEN rd
    ELSE [rd EXCEPT !.BaseIRI = IF urlParse(s).ok THEN urlParse(s).url ELSE NoURL]

\* r.BaseIRI, err = url.Parse(s): the base is replaced, by nil when s does not parse
setBase(rd, s) == [rd EXCEPT !.BaseIRI = IF urlParse(s).ok THEN urlParse(s).url ELSE NoURL]

\* the end of a directive that is terminated with '.', lt being the line
\* continued after its IRI: [r, line, err]
directiveEnd(lt, reason) ==
    IF ~IsNil(lt.err) THEN [r |-> lt.r, line |-> <<>>, err |-> lt.err]
    ELSE IF lt.line[1] # "." THEN [r |-> lt.r, line |-> <<>>, err |-> syntaxErr(lt.r, reason)]
    ELSE [r |-> lt.r, line |-> From(lt.line, 1), err |-> NoErr]

\* Reader.afterBaseDirective from the return of inIRI
afterBaseIRI(iri, terminated) ==
    IF ~IsNil(iri.err) THEN [r |-> iri.r, line |-> <<>>, err |-> iri.err]
    ELSE IF ~terminated THEN [r |-> setBase(iri.r, iri.IRI), line |-> iri.line, err |-> NoErr]
    ELSE directiveEnd(lineContinue(setBase(iri.r, iri.IRI), iri.line), "base directive not terminated with .")

\* Reader.afterBaseDirective: [r, line, err]
afterBaseDirective(rd, ln, terminated) ==
    LET lc == lineContinue(rd, ln)
        fail(rx, e) == [r |-> rx, line |-> <<>>, err |-> e]
    IN  IF ~IsNil(lc.err) THEN fail(lc.r, lc.err)
        ELSE IF lc.line[1] # "<"
        THEN fail(lc.r, syntaxErr(lc.r, "IRI reference of base directive does not start with <"))
        ELSE afterBaseIRI(inIRI(lc.r, lc.line), terminated)

\* a variant that keeps the binding a label already has
registerPrefixIfNew(rd, label, prefix) == [rd EXCEPT !.prefixPerLabel = @ @@ (label :> prefix)]

\* r.prefixPerLabel[label] = prefix
registerPrefix(rd, label, prefix) == [rd EXCEPT !.prefixPerLabel = (label :> prefix) @@ @]

\* Reader.afterPrefixDirective from the return of inIRI
afterPrefixIRI(label, iri, terminated) ==
    IF ~IsNil(iri.err) THEN [r |-> iri.r, line |-> <<>>, err |-> iri.err]
    ELSE IF ~terminated THEN [r |-> registerPrefix(iri.r, label, iri.IRI), line |-> iri.line, err |-> NoErr]
    ELSE directiveEnd(lineContinue(registerPrefix(iri.r, label, iri.IRI), iri.line),
                      "prefix directive is not terminated with .")

\* Reader.afterPrefixDirective: [r, line, err]
afterPrefixDirective(rd, ln, terminated) ==
    LET lc == lineContinue(rd, ln)
        i  == FirstIn(lc.line, 0, WS \cup {":"})
        l2 == lineContinue(lc.r, From(lc.line, i + 1))
        fail(rx, e) == [r |-> rx, line |-> <<>>, err |-> e]
    IN  IF ~IsNil(lc.err) THEN fail(lc.r, lc.err)
        ELSE IF i < 0 THEN fail(lc.r, UnexpectedEOF("prefix directive label interrupted"))
        ELSE IF At(lc.line, i) # ":" THEN fail(lc.r, syntaxErr(lc.r, "prefix label without : suffix"))
        ELSE IF ~IsNil(l2.err) THEN fail(l2.r, l2.err)
        ELSE IF l2.line[1] # "<"
        THEN fail(l2.r, syntaxErr(l2.r, "IRI of prefix directive does not start with <"))
        ELSE afterPrefixIRI(Slice(lc.line, 0, i), inIRI(l2.r, l2.line), terminated)

\* Reader.inDirective: [r, line, err]
inDirective(rd, ln) ==
    IF Len(ln) < 2 THEN [r |-> rd, line |-> <<>>, err |-> UnexpectedEOF("directive interrupted")]
    ELSE CASE At(ln, 1) = "b" ->
                LET tk == inToken(rd, From(ln, 1), <<"b", "a", "s", "e">>) IN
                IF ~IsNil(tk.err) THEN [r |-> rd, line |-> <<>>, err |-> tk.err]
                ELSE afterBaseDirective(rd, tk.line, TRUE)
           [] At(ln, 1) = "p" ->
                LET tk == inToken(rd, From(ln, 1), <<"p", "r", "e", "f", "i", "x">>) IN
                IF ~IsNil(tk.err) THEN [r |-> rd, line |-> <<>>, err |-> tk.err]
                ELSE afterPrefixDirective(rd, tk.line, TRUE)
           [] OTHER -> [r |-> rd, line |-> <<>>, err |-> syntaxErr(rd, "unknown directive; expected either @base or @prefix")]

(***************************************************************************)
(* Nodes: blank labels, anonymous nodes, collections, prefixed names       *)
(***************************************************************************)
\* Reader.inBlankLabel: [r, IRI, line, err]
inBlankLabel(rd, ln) ==
    LET fail(e) == [r |-> rd, IRI |-> <<>>, line |-> <<>>, err |-> e]
        i == FirstIn(ln, 2, WS)
    IN  IF Len(ln) > 1 /\ At(ln, 1) # ":"
        THEN fail(syntaxErr(rd, "prefixed name starts with underscore"))
        ELSE IF Len(ln) > 1 /\ i >= 0
        THEN [r |-> skolemIRIRootOf(rd),
              IRI |-> skolemIRIRootOf(rd).skolemIRICache \o <<"b", "l", "a", "n", "k", "#">> \o Slice(ln, 2, i),
              line |-> From(ln, i + 1), err |-> NoErr]
        ELSE fail(UnexpectedEOF("blank node not closed"))

\* the loop of Reader.inAnonymous over one line after another: [r, IRI, line, err]
RECURSIVE inAnonymousLoop(_, _, _)
inAnonymousLoop(rd, ln, skolemIRI) ==
    LET i == FirstIn(ln, 1, {c \in {At(ln, k) : k \in 0..(Len(ln) - 1)} : c \notin WS}) IN
    IF i >= 0
    THEN IF At(ln, i) = "]"
         THEN [r |-> rd, IRI |-> skolemIRI, line |-> From(ln, i + 1), err |-> NoErr]
         ELSE [r |-> [rd EXCEPT !.propListLevel = @ + 1], IRI |-> <<>>, line |-> <<>>,
               err |-> Panic("TODO: anonymous predicate-object list not implemented yet")]
    ELSE LET lc == lineContinue(rd, <<>>) IN
         IF ~IsNil(lc.err) THEN [r |-> lc.r, IRI |-> <<>>, line |-> <<>>, err |-> lc.err]
         ELSE IF lc.r = rd /\ lc.line = ln
         THEN [r |-> rd, IRI |-> <<>>, line |-> <<>>, err |-> Hang("anonymous node reads the pending line again")]
         ELSE inAnonymousLoop(lc.r, lc.line, skolemIRI)

\* Reader.inAnonymous
inAnonymous(rd, ln) ==
    LET r1 == skolemIRIRootOf([rd EXCEPT !.anonNodeNo = @ + 1]) IN
    inAnonymousLoop(r1, ln, r1.skolemIRICache \o <<"a", "n", "o", "n", "#">> \o Itoa(r1.anonNodeNo))

\* Reader.inCollection
inCollection(rd, ln) ==
    [r |-> rd, IRI |-> <<>>, line |-> <<>>, err |-> Panic("TODO: collection list not implemented yet")]

\* The ReadToken loop shared by readPredicate, inUndeterminedSubject and
\* inUndeterminedObject: [ok, hasPrefix, prefixLabel, local, i, line, rest]
\* where line is the slice the loop ends with, i the offset of the
\* whitespace found in it and rest what follows that whitespace.
ReadToken(ln) ==
    LET i0 == FirstIn(ln, 0, WS \cup {":"}) IN
    IF i0 < 0 THEN [ok |-> FALSE]
    ELSE IF At(ln, i0) # ":"
    THEN [ok |-> TRUE, hasPrefix |-> FALSE, prefixLabel |-> <<>>, local |-> Slice(ln, 0, i0),
          i |-> i0, line |-> ln, rest |-> From(ln, i0 + 1)]
    ELSE LET l2 == From(ln, i0 + 1)
             i1 == FirstIn(l2, 1, WS)
         IN  IF i1 < 0 THEN [ok |-> FALSE]
             ELSE [ok |-> TRUE, hasPrefix |-> TRUE, prefixLabel |-> Slice(ln, 0, i0), local |-> Slice(l2, 0, i1),
                   i |-> i1, line |-> l2, rest |-> From(l2, i1 + 1)]

HasLabel(rd, label) == label \in DOMAIN rd.prefixPerLabel

\* Reader.readPredicate: [r, IRI, line, err]
readPredicate(rd, ln) ==
    LET lc == lineContinue(rd, ln)
        fail(rx, e) == [r |-> rx, IRI |-> <<>>, line |-> <<>>, err |-> e]
    IN  IF ~IsNil(lc.err) THEN fail(lc.r, lc.err)
        ELSE IF lc.line[1] = "<" THEN inIRI(lc.r, lc.line)
        ELSE LET tk == ReadToken(lc.line) IN
             IF ~tk.ok THEN fail(lc.r, UnexpectedEOF("predicate interrupted"))
             ELSE IF ~tk.hasPrefix
             THEN IF tk.i = 1 /\ tk.line[1] = "a"
                  THEN [r |-> lc.r, IRI |-> RDFType, line |-> From(tk.line, 2), err |-> NoErr]
                  ELSE fail(lc.r, syntaxErr(lc.r, "illegal predicate token"))
             ELSE IF ~HasLabel(lc.r, tk.prefixLabel)
             THEN fail(lc.r, syntaxErr(lc.r, "undefined prefix on predicate"))
             ELSE [r |-> lc.r, IRI |-> lc.r.prefixPerLabel[tk.prefixLabel] \o tk.local,
                   line |-> tk.rest, err |-> NoErr]

IsBASE(local) ==
    /\ Len(local) = 4
    /\ local[1] \in {"B", "b"} /\ local[2] \in {"A", "a"}
    /\ local[3] \in {"S", "s"} /\ local[4] \in {"E", "e"}

IsPREFIX(local) ==
    /\ Len(local) = 6
    /\ local[1] \in {"P", "p"} /\ local[2] \in {"R", "r"} /\ local[3] \in {"E", "e"}
    /\ local[4] \in {"F", "f"} /\ local[5] \in {"I", "i"} /\ local[6] \in {"X", "x"}

\* Reader.inUndeterminedSubject: [r, IRI, line, err]; IRI is empty after a directive
inUndeterminedSubject(rd, ln) ==
    LET tk == ReadToken(ln)
        fail(e) == [r |-> rd, IRI |-> <<>>, line |-> <<>>, err |-> e]
        directive(d) == [r |-> d.r, IRI |-> <<>>, line |-> d.line, err |-> d.err]
    IN  IF ~tk.ok THEN fail(UnexpectedEOF("subject interrupted"))
        ELSE IF ~tk.hasPrefix
        THEN IF IsBASE(tk.local) THEN directive(afterBaseDirective(rd, tk.rest, FALSE))
             ELSE IF IsPREFIX(tk.local) THEN directive(afterPrefixDirective(rd, tk.rest, FALSE))
             ELSE fail(syntaxErr(rd, "illegal subject token"))
        ELSE IF ~HasLabel(rd, tk.prefixLabel)
        THEN fail(syntaxErr(rd, "undefined prefix on subject node"))
        ELSE [r |-> rd, IRI |-> rd.prefixPerLabel[tk.prefixLabel] \o tk.local, line |-> tk.rest, err |-> NoErr]

(***************************************************************************)
(* Literals                                                                *)
(***************************************************************************)
\* Reader.inLangTag from offset i with the start of the current code at offset: [t, line, err]
RECURSIVE inLangTagFrom(_, _, _, _, _)
inLangTagFrom(rd, ln, t, offset, i) ==
    LET t1 == [t EXCEPT !.DatatypeIRI = RDFLangString]
        fail(e) == [t |-> t1, line |-> <<>>, err |-> e]
    IN  IF i >= Len(ln) THEN fail(UnexpectedEOF(""))
        ELSE LET c == At(ln, i) IN
             CASE c \in UpperLetters \cup LowerLetters -> inLangTagFrom(rd, ln, t, offset, i + 1)
               [] c \in Digits ->
                    IF offset = 1 THEN fail(syntaxErr(rd, "decimal in first code of language tag"))
                    ELSE inLangTagFrom(rd, ln, t, offset, i + 1)
               [] c = "-" ->
                    IF offset = i THEN fail(syntaxErr(rd, "empty code in language tag"))
                    ELSE inLangTagFrom(rd, ln, t, i + 1, i + 1)
               [] c \in WS ->
                    IF offset = i THEN fail(syntaxErr(rd, "empty code in language tag"))
                    ELSE [t |-> [t1 EXCEPT !.LangTag = Slice(ln, 1, i)], line |-> From(ln, i + 1), err |-> NoErr]
               [] OTHER -> fail(syntaxErr(rd, "illegal character in language tag"))

inLangTag(rd, ln, t) == inLangTagFrom(rd, ln, t, 1, 1)

\* Reader.inDatatype: [t, line, err]
inDatatype(rd, ln, t) ==
    LET fail(e) == [t |-> t, line |-> <<>>, err |-> e]
        typed(iri) == [t |-> [t EXCEPT !.DatatypeIRI = iri.IRI], line |-> iri.line, err |-> iri.err]
        i  == FirstIn(ln, 2, WS \cup {":"})
        l2 == From(ln, i + 1)
        j  == FirstIn(l2, 0, WS)
    IN  IF Len(ln) < 2 \/ (Len(ln) < 3 /\ At(ln, 1) = "^") THEN fail(UnexpectedEOF(""))
        ELSE IF At(ln, 1) # "^" THEN fail(syntaxErr(rd, "single ^ after quoted string"))
        ELSE IF Len(ln) < 4 THEN fail(UnexpectedEOF(""))
        ELSE IF At(ln, 2) = "<" THEN typed(inIRI(rd, From(ln, 2)))
        ELSE IF i < 0 THEN fail(UnexpectedEOF(""))
        ELSE IF At(ln, i) # ":" THEN fail(syntaxErr(rd, "datatype missing prefix"))
        ELSE IF ~HasLabel(rd, Slice(ln, 2, i)) THEN fail(syntaxErr(rd, "undefined prefix on datatype"))
        ELSE IF j < 0 THEN fail(UnexpectedEOF(""))
        ELSE [t |-> [t EXCEPT !.DatatypeIRI = rd.prefixPerLabel[Slice(ln, 2, i)] \o Slice(l2, 0, j)],
              line |-> From(l2, j + 1), err |-> NoErr]

\* a variant that leaves the datatype of a plain literal empty
afterQuotedLiteralUntyped(rd, ln, t) ==
    IF Len(ln) # 0 /\ ln[1] = "^" THEN inDatatype(rd, ln, t)
    ELSE IF Len(ln) # 0 /\ ln[1] = "@" THEN inLangTag(rd, ln, t)
    ELSE [t |-> t, line |-> IF Len(ln) # 0 /\ ln[1] \in WS THEN From(ln, 1) ELSE ln, err |-> NoErr]

\* Reader.afterQuotedLiteral: [t, line, err]
afterQuotedLiteral(rd, ln, t) ==
    IF Len(ln) # 0 /\ ln[1] = "^" THEN inDatatype(rd, ln, t)
    ELSE IF Len(ln) # 0 /\ ln[1] = "@" THEN inLangTag(rd, ln, t)
    ELSE [t |-> [t EXCEPT !.DatatypeIRI = XSDString],
          line |-> IF Len(ln) # 0 /\ ln[1] \in WS THEN From(ln, 1) ELSE ln,
          err |-> NoErr]

\* the bytes that strings.Builder.WriteRune writes for a code point
RuneBytes(u) ==
    CASE u = 9 -> <<"\t">>
      [] u = 10 -> <<"\n">>
      [] u = 34 -> <<"\"">>
      [] u = 39 -> <<"'">>
      [] u = 65 -> <<"A">>
      [] u = 92 -> <<"\\">>
      [] u = 97 -> <<"a">>
      [] OTHER -> <<"\\u+">>

HexDigits == <<"0", "1", "2", "3", "4", "5", "6", "7", "8", "9", "a", "b", "c", "d", "e", "f">>

HexValue(c) == (CHOOSE k \in 1..16 : HexDigits[k] = ToLowerByte(c)) - 1

IsHex(c) == c \in Digits \cup {"A", "B", "C", "D", "E", "F", "a", "b", "c", "d", "e", "f"}

\* Reader.nHex: [b, line, err]
RECURSIVE nHex(_, _, _, _, _)
nHex(rd, ln, n, u, b) ==
    IF n = 0 THEN [b |-> b \o RuneBytes(u), line |-> ln, err |-> NoErr]
    ELSE IF Len(ln) = 0 THEN [b |-> b, line |-> <<>>, err |-> UnexpectedEOF("")]
    ELSE IF ~IsHex(ln[1]) THEN [b |-> b, line |-> <<>>, err |-> syntaxErr(rd, "illegal hex in Unicode escape")]
    ELSE nHex(rd, Tail(ln), n - 1, u * 16 + HexValue(ln[1]), b)

\* Reader.inEscape on the builder b: [b, line, err]
inEscape(rd, ln, b) ==
    IF Len(ln) = 0 THEN [b |-> b, line |-> <<>>, err |-> UnexpectedEOF("")]
    ELSE LET c == ln[1] IN
         CASE c = "u" -> nHex(rd, From(ln, 1), 4, 0, b)
           [] c = "U" -> nHex(rd, From(ln, 1), 8, 0, b)
           [] c = "t" -> [b |-> b \o <<"\t">>, line |-> From(ln, 1), err |-> NoErr]
           [] c = "b" -> [b |-> b \o <<"\\b">>, line |-> From(ln, 1), err |-> NoErr]
           [] c = "n" -> [b |-> b \o <<"\n">>, line |-> From(ln, 1), err |-> NoErr]
           [] c = "r" -> [b |-> b \o <<"\r">>, line |-> From(ln, 1), err |-> NoErr]
           [] c = "f" -> [b |-> b \o <<"\\f">>, line |-> From(ln, 1), err |-> NoErr]
           [] OTHER -> [b |-> b \o <<c>>, line |-> From(ln, 1), err |-> NoErr]

\* Reader.inDoubleQuoteEscape (quote "\"") and Reader.inSingleQuoteEscape (quote "'"),
\* which differ in the quote only: [t, line, err]
inQuoteEscape(rd, copyAsIs, ln, t, quote) ==
    LET fail(e) == [t |-> t, line |-> <<>>, err |-> e] IN
    IF Len(copyAsIs) + Len(ln) - 4 < 0 THEN fail(Panic("strings.Builder.Grow: negative count"))
    ELSE LET esc == inEscape(rd, ln, copyAsIs) IN
         IF ~IsNil(esc.err) THEN fail(esc.err)
         ELSE LET i == FirstIn(esc.line, 0, {"\\", quote, "\r", "\n"}) IN
              IF i < 0 THEN fail(UnexpectedEOF("quoted literal not closed"))
              ELSE LET c == At(esc.line, i) IN
                   CASE c = "\\" -> fail(Hang("the Escape loop decodes the first escape again"))
                     [] c = quote ->
                          afterQuotedLiteral(rd, From(esc.line, i + 1),
                                             [t EXCEPT !.Object = esc.b \o Slice(esc.line, 0, i)])
                     [] c = "\r" -> fail(syntaxErr(rd, "new line in quoted literal"))
                     [] OTHER -> fail(syntaxErr(rd, "carriage return in quoted literal"))

inDoubleQuoteEscape(rd, copyAsIs, ln, t) == inQuoteEscape(rd, copyAsIs, ln, t, "\"")

inSingleQuoteEscape(rd, copyAsIs, ln, t) == inQuoteEscape(rd, copyAsIs, ln, t, "'")

WithR(rd, res) == [r |-> rd, t |-> res.t, line |-> res.line, err |-> res.err]

\* the scan of one line in Reader.longDoubleQuote and Reader.longSingleQuote:
\* [found, b, rest, err]
RECURSIVE longScan(_, _, _, _, _)
longScan(rd, ln, i, b, quote) ==
    IF i >= Len(ln) THEN [found |-> FALSE, b |-> b \o ln, rest |-> <<>>, err |-> NoErr]
    ELSE LET c == At(ln, i) IN
         CASE c = "\\" ->
                LET esc == inEscape(rd, From(ln, i), b \o Slice(ln, 0, i)) IN
                IF ~IsNil(esc.err) THEN [found |-> FALSE, b |-> b, rest |-> <<>>, err |-> esc.err]
                ELSE longScan(rd, esc.line, 1, esc.b, quote)
           [] c = quote ->
                IF i + 2 >= Len(ln) \/ At(ln, i + 1) # quote THEN longScan(rd, ln, i + 1, b, quote)
                ELSE IF At(ln, i + 2) # quote THEN longScan(rd, ln, i + 2, b, quote)
                ELSE [found |-> TRUE, b |-> b \o Slice(ln, 0, i), rest |-> From(ln, i + 3), err |-> NoErr]
           [] OTHER -> longScan(rd, ln, i + 1, b, quote)

\* the loop over lines of Reader.longDoubleQuote and Reader.longSingleQuote: [r, t, line, err]
RECURSIVE longQuote(_, _, _, _, _)
longQuote(rd, b, ln, t, quote) ==
    LET sc == longScan(rd, ln, 0, b, quote)
        fail(rx, e) == [r |-> rx, t |-> t, line |-> <<>>, err |-> e]
    IN  IF ~IsNil(sc.err) THEN fail(rd, sc.err)
        ELSE IF sc.found THEN WithR(rd, afterQuotedLiteral(rd, sc.rest, [t EXCEPT !.Object = sc.b]))
        ELSE LET res == line(rd) IN
             IF IsEOF(res.err) THEN fail(res.r, UnexpectedEOF("long quoted literal not closed"))
             ELSE IF ~IsNil(res.err) THEN fail(res.r, res.err)
             ELSE IF res.r = rd /\ res.line = ln
             THEN fail(rd, Hang("long quoted literal reads the pending line again"))
             ELSE longQuote(res.r, sc.b, res.line, t, quote)

longDoubleQuote(rd, copyAsIs, ln, t) == longQuote(rd, copyAsIs, ln, t, "\"")

longSingleQuote(rd, copyAsIs, ln, t) == longQuote(rd, copyAsIs, ln, t, "'")

\* the first scan of a long quoted literal in inDoubleQuote and inSingleQuote:
\* the offset of the closing quotes, of a backslash, or -1
RECURSIVE longOpenScan(_, _, _)
longOpenScan(ln, i, quote) ==
    IF i >= Len(ln) THEN -1
    ELSE LET c == At(ln, i) IN
         CASE c = quote ->
                IF i + 2 >= Len(ln) \/ At(ln, i + 1) # quote THEN longOpenScan(ln, i + 1, quote)
                ELSE IF At(ln, i + 2) # quote THEN longOpenScan(ln, i + 2, quote)
                ELSE i
           [] c = "\\" -> i
           [] OTHER -> longOpenScan(ln, i + 1, quote)

\* the short-quote scan of inDoubleQuote and inSingleQuote: [r, t, line, err]
shortQuote(rd, ln, t, quote) ==
    LET i == FirstIn(ln, 1, {quote, "\\", "\r", "\n"})
        fail(e) == [r |-> rd, t |-> t, line |-> <<>>, err |-> e]
    IN  IF i < 0 THEN fail(UnexpectedEOF("quoted literal not closed"))
        ELSE LET c == At(ln, i) IN
             CASE c = quote ->
                    WithR(rd, afterQuotedLiteral(rd, From(ln, i + 1), [t EXCEPT !.Object = Slice(ln, 1, i)]))
               [] c = "\\" ->
                    IF quote = "\""
                    THEN WithR(rd, inDoubleQuoteEscape(rd, Slice(ln, 1, i), From(ln, i), t))
                    ELSE WithR(rd, inSingleQuoteEscape(rd, Slice(ln, 1, i), From(ln, i), t))
               [] c = "\r" -> fail(syntaxErr(rd, "new line in quoted literal"))
               [] OTHER -> fail(syntaxErr(rd, "carriage return in quoted literal"))

\* Reader.inDoubleQuote: [r, t, line, err]
inDoubleQuote(rd, ln, t) ==
    IF Len(ln) > 2 /\ At(ln, 1) = "\"" /\ At(ln, 2) = "\""
    THEN LET i == longOpenScan(ln, 3, "\"") IN
         IF i < 0 THEN longSingleQuote(rd, From(ln, 3), <<>>, t)
         ELSE IF At(ln, i) = "\\" THEN longSingleQuote(rd, Slice(ln, 3, i), From(ln, i), t)
         ELSE WithR(rd, afterQuotedLiteral(rd, From(ln, i + 3), [t EXCEPT !.Object = Slice(ln, 3, i)]))
    ELSE shortQuote(rd, ln, t, "\"")

\* Reader.inSingleQuote: [r, t, line, err]
inSingleQuote(rd, ln, t) ==
    IF Len(ln) > 2 /\ At(ln, 1) = "'" /\ At(ln, 2) = "'"
    THEN LET i == longOpenScan(ln, 3, "'") IN
         IF i < 0 THEN longSingleQuote(rd, From(ln, 3), <<>>, t)
         ELSE IF At(ln, i) = "\\" THEN longSingleQuote(rd, Slice(ln, 3, i), From(ln, i), t)
         ELSE WithR(rd, afterQuotedLiteral(rd, From(ln, i + 3), [t EXCEPT !.Object = Slice(ln, 3, i)]))
    ELSE shortQuote(rd, ln, t, "'")

(***************************************************************************)
(* Numbers and keywords                                                    *)
(***************************************************************************)
\* the exponent of a double in Reader.inNumberWithSign, entered after 'E' or 'e'
\* and the optional sign: [t, line, err]
RECURSIVE inExponent(_, _, _, _, _)
inExponent(rd, ln, t, offset, i) ==
    IF i >= Len(ln) THEN [t |-> t, line |-> <<>>, err |-> UnexpectedEOF("")]
    ELSE CASE At(ln, i) \in Digits -> inExponent(rd, ln, t, offset, i + 1)
           [] At(ln, i) \in WS ->
                IF i = offset
                THEN [t |-> t, line |-> <<>>, err |-> syntaxErr(rd, "no decimals in double exponent")]
                ELSE [t |-> [t EXCEPT !.DatatypeIRI = XSDDouble, !.Object = Slice(ln, 0, i)],
                      line |-> From(ln, i + 1), err |-> NoErr]
           [] OTHER -> [t |-> t, line |-> <<>>, err |-> syntaxErr(rd, "illegal charater in exponent of double")]

\* the tail of Reader.inNumberWithSign from the 'E' or 'e' at offset i
inDouble(rd, ln, signOffset, t, i) ==
    IF i - signOffset < 3
    THEN [t |-> t, line |-> <<>>, err |-> syntaxErr(rd, "fraction of double without decimals")]
    ELSE LET j == IF i + 1 < Len(ln) /\ At(ln, i + 1) \in {"+", "-"} THEN i + 2 ELSE i + 1 IN
         inExponent(rd, ln, t, j, j)

\* the fraction loop of Reader.inNumberWithSign, entered with i on the '.'
RECURSIVE inFraction(_, _, _, _, _)
inFraction(rd, ln, signOffset, t, i) ==
    LET k == i + 1 IN
    IF k >= Len(ln) THEN [t |-> t, line |-> <<>>, err |-> UnexpectedEOF("")]
    ELSE CASE At(ln, k) \in Digits -> inFraction(rd, ln, signOffset, t, k)
           [] At(ln, k) \in WS ->
                IF At(ln, k - 1) = "."
                THEN [t |-> t, line |-> <<>>, err |-> syntaxErr(rd, "decimal with empty fraction")]
                ELSE [t |-> [t EXCEPT !.DatatypeIRI = XSDDecimal, !.Object = Slice(ln, 0, k)],
                      line |-> From(ln, k + 1), err |-> NoErr]
           [] At(ln, k) \in {"E", "e"} -> inDouble(rd, ln, signOffset, t, k)
           [] OTHER -> [t |-> t, line |-> <<>>, err |-> syntaxErr(rd, "illegal character in fraction")]

\* Reader.inNumberWithSign: [t, line, err]
inNumberWithSign(rd, ln, signOffset, t) ==
    LET i == 1
        fail(e) == [t |-> t, line |-> <<>>, err |-> e]
    IN  IF i >= Len(ln) THEN fail(UnexpectedEOF(""))
        ELSE IF At(ln, i) \in Digits THEN fail(Hang("the digit loop continues without advancing"))
        ELSE CASE At(ln, i) \in WS ->
                    IF i - signOffset = 0 THEN fail(syntaxErr(rd, "sign without number"))
                    ELSE [t |-> [t EXCEPT !.DatatypeIRI = XSDInteger, !.Object = Slice(ln, 0, i)],
                          line |-> From(ln, i + 1), err |-> NoErr]
               [] At(ln, i) = "." -> inFraction(rd, ln, signOffset, t, i)
               [] At(ln, i) \in {"E", "e"} -> inDouble(rd, ln, signOffset, t, i)
               [] OTHER -> fail(syntaxErr(rd, "illegal character in number"))

\* Reader.inUndeterminedObject: [t, line, err]
inUndeterminedObject(rd, ln, t) ==
    LET tk == ReadToken(ln)
        fail(e) == [t |-> t, line |-> <<>>, err |-> e]
    IN  IF ~tk.ok THEN fail(UnexpectedEOF("object interrupted"))
        ELSE IF ~tk.hasPrefix
        THEN IF tk.local = <<"t", "r", "u", "e">>
             THEN [t |-> [t EXCEPT !.Object = <<"t", "r", "u", "e">>, !.DatatypeIRI = XSDBoolean],
                   line |-> tk.rest, err |-> NoErr]
             ELSE IF tk.local = <<"f", "a", "l", "s", "e">>
             THEN [t |-> [t EXCEPT !.Object = <<"t", "r", "u", "e">>, !.DatatypeIRI = XSDBoolean],
                   line |-> tk.rest, err |-> NoErr]
             ELSE fail(syntaxErr(rd, "illegal object token"))
        ELSE IF ~HasLabel(rd, tk.prefixLabel)
        THEN fail(syntaxErr(rd, "undefined prefix on object node"))
        ELSE [t |-> [t EXCEPT !.Object = rd.prefixPerLabel[tk.prefixLabel] \o tk.local],
              line |-> tk.rest, err |-> NoErr]

(***************************************************************************)
(* Statements                                                              *)
(***************************************************************************)
\* an IRI-valued node as the object of t
AsObject(res, t) == [r |-> res.r, t |-> [t EXCEPT !.Object = res.IRI], line |-> res.line, err |-> res.err]

\* Reader.readObject: [r, t, line, err]
readObject(rd, ln, t) ==
    LET lc == lineContinue(rd, ln) IN
    IF ~IsNil(lc.err) THEN [r |-> lc.r, t |-> t, line |-> <<>>, err |-> lc.err]
    ELSE LET c == lc.line[1] IN
         CASE c = "<" -> AsObject(inIRI(lc.r, lc.line), t)
           [] c = "_" -> AsObject(inBlankLabel(lc.r, lc.line), t)
           [] c = "[" -> AsObject(inAnonymous(lc.r, lc.line), t)
           [] c = "(" -> AsObject(inCollection(lc.r, lc.line), t)
           [] c = "\"" -> inDoubleQuote(lc.r, lc.line, t)
           [] c = "'" -> inSingleQuote(lc.r, lc.line, t)
           [] c \in {"+", "-"} -> WithR(lc.r, inNumberWithSign(lc.r, lc.line, 1, t))
           [] c \in {"."} \cup Digits -> WithR(lc.r, inNumberWithSign(lc.r, lc.line, 0, t))
           [] OTHER -> WithR(lc.r, inUndeterminedObject(lc.r, lc.line, t))

\* the loop of Reader.readSubject, entered with a line: [r, IRI, line, err].
\* When a directive ends its line, lineContinue calls line, which starts from
\* r.pending again; reread says that this has happened before in this call.  The
\* second time the same bytes are about to be parsed from the same state of the
\* stream, so the loop of the code never ends.
RECURSIVE readSubjectLoop(_, _, _)
readSubjectLoop(rd, ln, reread) ==
    LET continue(lc, fromPending) ==
            IF ~IsNil(lc.err) THEN [r |-> lc.r, IRI |-> <<>>, line |-> <<>>, err |-> lc.err]
            ELSE IF fromPending /\ reread
            THEN [r |-> lc.r, IRI |-> <<>>, line |-> <<>>,
                  err |-> Hang("the directive is read from the pending line again")]
            ELSE readSubjectLoop(lc.r, lc.line, reread \/ fromPending)
        next(d) ==
            IF ~IsNil(d.err) THEN [r |-> d.r, IRI |-> <<>>, line |-> <<>>, err |-> d.err]
            ELSE continue(lineContinue(d.r, d.line), Len(lead(d.line)) = 0 /\ Len(lead(d.r.pending)) # 0)
        undetermined(u) == IF ~IsNil(u.err) \/ u.IRI # <<>> THEN u ELSE next(u)
    IN  CASE ln[1] = "@" -> next(inDirective(rd, ln))
          [] ln[1] = "<" -> inIRI(rd, ln)
          [] ln[1] = "[" -> inAnonymous(rd, ln)
          [] ln[1] = "(" -> inCollection(rd, ln)
          [] ln[1] = "_" -> inBlankLabel(rd, ln)
          [] OTHER -> undetermined(inUndeterminedSubject(rd, ln))

\* Reader.readSubject
readSubject(rd) ==
    LET l == line(rd) IN
    IF ~IsNil(l.err) THEN [r |-> l.r, IRI |-> <<>>, line |-> <<>>, err |-> l.err]
    ELSE readSubjectLoop(l.r, l.line, FALSE)

\* a variant that stores the line with its '.' still in front
endOfStatementKeepingDot(rd, ln) == [rd EXCEPT !.pending = ln]

\* the '.' case of Reader.ReadAppend: what follows the '.' on the line is kept
\* for the next call
endOfStatement(rd, ln) == [rd EXCEPT !.pending = From(ln, 1)]

\* a variant that appends the triple before it looks at readObject's error
objectFailedAppending(o, d) == [r |-> o.r, dst |-> Append(d, o.t), err |-> o.err, more |-> FALSE, line |-> <<>>]

\* the return of Reader.ReadAppend on an error of readObject: dst as it was
objectFailed(o, d) == [r |-> o.r, dst |-> d, err |-> o.err, more |-> FALSE, line |-> <<>>]

\* the ReadObject loop of Reader.ReadAppend: [r, dst, err, more, line]; more says that
\* a ';' sends the caller back to its ReadPredicate loop
RECURSIVE ReadObjectLoop(_, _, _, _, _)
ReadObjectLoop(rd, ln, subject, predicate, d) ==
    LET after(d1, lc) ==
            IF ~IsNil(lc.err) THEN [r |-> lc.r, dst |-> d1, err |-> lc.err, more |-> FALSE, line |-> <<>>]
            ELSE CASE lc.line[1] = "." ->
                        [r |-> endOfStatement(lc.r, lc.line), dst |-> d1, err |-> NoErr,
                         more |-> FALSE, line |-> <<>>]
                   [] lc.line[1] = "," -> ReadObjectLoop(lc.r, From(lc.line, 1), subject, predicate, d1)
                   [] lc.line[1] = ";" ->
                        [r |-> lc.r, dst |-> d1, err |-> NoErr, more |-> TRUE, line |-> From(lc.line, 1)]
                   [] OTHER ->
                        [r |-> lc.r, dst |-> d1, err |-> syntaxErr(lc.r, "illegal triple continuation"),
                         more |-> FALSE, line |-> <<>>]
        object(o) ==
            IF ~IsNil(o.err) THEN objectFailed(o, d)
            ELSE after(Append(d, o.t), lineContinue(o.r, o.line))
    IN  object(readObject(rd, ln, [SubjectIRI |-> subject, PredicateIRI |-> predicate, Object |-> <<>>,
                                   DatatypeIRI |-> <<>>, LangTag |-> <<>>]))

\* the ReadObject loop for the predicate that readPredicate returned in p
ReadObjects(p, subject, d) ==
    IF ~IsNil(p.err) THEN [r |-> p.r, dst |-> d, err |-> p.err, more |-> FALSE, line |-> <<>>]
    ELSE ReadObjectLoop(p.r, p.line, subject, p.IRI, d)

\* the ReadPredicate loop of Reader.ReadAppend: [r, dst, err]
RECURSIVE ReadPredicateLoop(_, _, _, _)
ReadPredicateLoop(rd, ln, subject, d) ==
    LET objects(o) == IF o.more THEN ReadPredicateLoop(o.r, o.line, subject, o.dst)
                      ELSE [r |-> o.r, dst |-> o.dst, err |-> o.err]
    IN  objects(ReadObjects(readPredicate(rd, ln), subject, d))

\* the ReadPredicate loop for the subject that readSubject returned in s
ReadPredicates(s, d) ==
    IF ~IsNil(s.err) THEN [r |-> s.r, dst |-> d, err |-> s.err]
    ELSE ReadPredicateLoop(s.r, s.line, s.IRI, d)

\* Reader.ReadAppend: [r, dst, err]
ReadAppend(rd, d) == ReadPredicates(readSubject(rd), d)

(***************************************************************************)
(* Input streams.  A stream is written as a sequence of items: directives  *)
(* and statements built from terms.  Next to the text of every item stands *)
(* what Turtle says it means, worked out on the terms and not on the       *)
(* bytes: the triples of each statement and the offset at which it ends.   *)
(***************************************************************************)
RECURSIVE Cat(_)
Cat(ss) == IF ss = <<>> THEN <<>> ELSE Head(ss) \o Cat(Tail(ss))

\* a term: its text, the form of its value (abs, rel, pname, blank, lit), the
\* value itself (for pname the local part, with the label apart), the datatype
\* and language tag of a literal, the kind of object it is, and whether its
\* text may be followed by punctuation without white space
\* no reference
NoRef == [form |-> "none", val |-> <<>>, label |-> <<>>]

Term(text, form, val, label, dt, lang, kind, tight) ==
    [text |-> text, form |-> form, val |-> val, label |-> label, dt |-> dt, dtref |-> NoRef,
     lang |-> lang, kind |-> kind, tight |-> tight]

AbsIRI(text, val) == Term(text, "abs", val, <<>>, <<>>, <<>>, "iri", TRUE)

RelIRI(text, val) == Term(text, "rel", val, <<>>, <<>>, <<>>, "iri", TRUE)

PName(text, label, local) == Term(text, "pname", local, label, <<>>, <<>>, "pname", FALSE)

Blank(text, name) == Term(text, "blank", name, <<>>, <<>>, <<>>, "blank", FALSE)

Quoted(text, val) == Term(text, "lit", val, <<>>, XSDString, <<>>, "quoted", TRUE)

QuotedAs(text, val, dt, lang, tight) == Term(text, "lit", val, <<>>, dt, lang, "quoted", tight)

\* a quoted literal whose datatype is written as a reference (form, label, val)
QuotedRef(text, val, form, label, ref) ==
    [Term(text, "lit", val, <<>>, <<>>, <<>>, "quoted", form # "pname") EXCEPT
        !.dtref = [form |-> form, val |-> ref, label |-> label]]

Number(text, dt) == Term(text, "lit", text, <<>>, dt, <<>>, "number", FALSE)

Keyword(text, val, dt) == Term(text, "lit", val, <<>>, dt, <<>>, "boolean", FALSE)

\* the white space between two tokens in each style of writing
Seps == [space |-> <<" ">>, newline |-> <<"\n">>, comment |-> <<" ", "#", " ", "c", "\n">>, tight |-> <<" ">>]

SepStyles == {"space", "newline", "comment", "tight"}

\* the white space between a term and the punctuation after it
Before(style, term) == IF style = "tight" /\ term.tight THEN <<>> ELSE Seps[style]

\* the text of an object list: o1 , o2 , ...
RECURSIVE RenderObjs(_, _)
RenderObjs(objs, style) ==
    IF Len(objs) = 1 THEN Head(objs).text
    ELSE Head(objs).text \o Before(style, Head(objs)) \o <<",">> \o Seps[style] \o RenderObjs(Tail(objs), style)

Last(s) == s[Len(s)]

\* the text of a predicate-object list: p1 objs ; p2 objs ; ...
RECURSIVE RenderPO(_, _)
RenderPO(po, style) ==
    LET first == Head(po).pred.text \o Seps[style] \o RenderObjs(Head(po).objs, style) IN
    IF Len(po) = 1 THEN first
    ELSE first \o Before(style, Last(Head(po).objs)) \o <<";">> \o Seps[style] \o RenderPO(Tail(po), style)

\* the text of a statement, up to and including its '.'
RenderStmt(st, style) ==
    st.subj.text \o Seps[style] \o RenderPO(st.po, style)
    \o Before(style, Last(Last(st.po).objs)) \o <<".">>

\* the (predicate, object) pairs of a statement in source order
RECURSIVE Pairs(_)
Pairs(po) ==
    IF po = <<>> THEN <<>>
    ELSE [k \in 1..Len(Head(po).objs) |-> [pred |-> Head(po).pred, obj |-> Head(po).objs[k]]] \o Pairs(Tail(po))

\* what the stream has set up when a term is read: the directory of the base IRI
\* (empty when there is none), the IRI bound to each label, and the skolem root
Context(dir, bound, root) == [dir |-> dir, bound |-> bound, root |-> root]

\* the IRI a node term denotes; Defined says whether it denotes one at all
Denotes(term, ctx) ==
    CASE term.form = "abs" -> term.val
      [] term.form = "rel" -> ctx.dir \o term.val
      [] term.form = "pname" -> (IF term.label \in DOMAIN ctx.bound THEN ctx.bound[term.label] ELSE <<>>) \o term.val
      [] term.form = "blank" -> ctx.root \o <<"b", "l", "a", "n", "k", "#">> \o term.val
      [] OTHER -> term.val

DefinedRef(term, ctx) ==
    CASE term.form = "rel" -> ctx.dir # <<>>
      [] term.form = "pname" -> term.label \in DOMAIN ctx.bound
      [] OTHER -> TRUE

Defined(term, ctx) == DefinedRef(term, ctx) /\ DefinedRef(term.dtref, ctx)

\* the triple of one (predicate, object) pair
TripleOf(subj, pair, ctx) ==
    [SubjectIRI |-> Denotes(subj, ctx), PredicateIRI |-> Denotes(pair.pred, ctx),
     Object |-> Denotes(pair.obj, ctx),
     DatatypeIRI |-> IF pair.obj.dtref.form = "none" THEN pair.obj.dt ELSE Denotes(pair.obj.dtref, ctx),
     LangTag |-> pair.obj.lang]

\* the triples of a statement
TriplesOf(st, ctx) == [k \in 1..Len(Pairs(st.po)) |-> TripleOf(st.subj, Pairs(st.po)[k], ctx)]

\* the terms of a statement
TermsOf(st) == {st.subj} \cup {Pairs(st.po)[k].pred : k \in 1..Len(Pairs(st.po))}
               \cup {Pairs(st.po)[k].obj : k \in 1..Len(Pairs(st.po))}

\* the items of a stream
StmtItem(st, style) == [type |-> "stmt", text |-> RenderStmt(st, style), st |-> st]

BaseItem(text, abs, dir) == [type |-> "base", text |-> text, abs |-> abs, dir |-> dir]

PrefixItem(text, label, abs, iri) == [type |-> "prefix", text |-> text, label |-> label, abs |-> abs, iri |-> iri]

\* a stream: items, each followed by the joint, and then what is left before
\* the end: nothing that makes a statement (none) or a statement cut short (cut)
Stream(items, joint, tail) == [items |-> items, joint |-> joint, tail |-> tail]

StreamText(s) == Cat([k \in 1..Len(s.items) |-> s.items[k].text \o s.joint]) \o s.tail.text

\* the context after a directive
AfterDirective(it, ctx) ==
    IF it.type = "base"
    THEN [ctx EXCEPT !.dir = IF it.abs THEN it.dir ELSE ctx.dir \o it.dir]
    ELSE [ctx EXCEPT !.bound = (it.label :> (IF it.abs THEN it.iri ELSE ctx.dir \o it.iri)) @@ @]

\* the statements of a stream in order, each with the context it is read in,
\* the offset right after its '.', and the number of directives before it
RECURSIVE Walk(_, _, _, _, _)
Walk(items, joint, ctx, offset, directives) ==
    IF items = <<>> THEN <<>>
    ELSE LET it == Head(items)
             end == offset + Len(it.text)
         IN IF it.type = "stmt"
            THEN <<[st |-> it.st, ctx |-> ctx, end |-> end, directives |-> directives]>>
                 \o Walk(Tail(items), joint, ctx, end + Len(joint), 0)
            ELSE Walk(Tail(items), joint, AfterDirective(it, ctx), end + Len(joint), directives + 1)

\* the directives after the last statement of a stream
RECURSIVE Trailing(_)
Trailing(items) ==
    IF items = <<>> \/ Last(items).type = "stmt" THEN 0
    ELSE 1 + Trailing(SubSeq(items, 1, Len(items) - 1))

\* what a stream means: its statements, and what follows the last of them
Meaning(s, dir) ==
    [stmts |-> Walk(s.items, s.joint, Context(dir, <<>>, <<>>), 0, 0),
     tail |-> s.tail.kind, directives |-> Trailing(s.items), joint |-> s.joint]

NoTail == [kind |-> "none", text |-> <<>>]

(***************************************************************************)
(* The Reader and its caller                                               *)
(***************************************************************************)
\* upper bound on the ReadAppend calls of one session
MaxCalls == 3

\* a Reader as the caller constructs it around a stream
NewReader(input, base, cache) ==
    [R |-> input, pending |-> <<>>, BaseIRI |-> base, prefixPerLabel |-> <<>>,
     lineNo |-> 0, anonNodeNo |-> 0, collectionLevel |-> 0, propListLevel |-> 0,
     skolemIRICache |-> cache]

\* the state right after construction, for a stream out of Streams, a seeded
\* skolem root out of Caches, what the random source yields out of Entropies,
\* and a caller-set base IRI out of Bases (as directory text; empty for none)
InitWith(Streams, Bases, Caches, Entropies) ==
    /\ \E s \in Streams, dir \in Bases :
          /\ source = StreamText(s)
          /\ expect = Meaning(s, dir)
          /\ \E cache \in Caches :
                r = NewReader(source, IF dir = <<>> THEN NoURL ELSE urlParse(dir).url, cache)
    /\ entropy \in Entropies
    /\ dst = <<>>
    /\ err = NoErr
    /\ calls = 0
    /\ marks = <<0>>
    /\ errs = <<>>
    /\ probe = [called |-> FALSE, s |-> <<>>, result |-> FALSE]

\* the caller's loop: one more ReadAppend while the previous one returned nil
ReadAppendCall ==
    /\ calls < MaxCalls
    /\ IsNil(err)
    /\ ~probe.called
    /\ LET res == ReadAppend(r, dst) IN
       /\ r' = res.r
       /\ dst' = res.dst
       /\ err' = res.err
       /\ calls' = calls + 1
       /\ marks' = Append(marks, Len(res.dst))
       /\ errs' = Append(errs, res.err)
    /\ UNCHANGED <<source, entropy, probe, expect>>

\* the IRIs the caller got, and a few strings around the reserved namespace
ProbeStrings ==
    {dst[k].SubjectIRI : k \in 1..Len(dst)} \cup {dst[k].Object : k \in 1..Len(dst)}
    \cup {skolemIRIRoot, skolemIRIRoot \o <<"1", "/", "b">>, SubSeq(skolemIRIRoot, 1, 3), <<"x", ":", "s">>}

\* the caller asks IsSkolemIRI about a string once the session is over
IsSkolemIRICall ==
    /\ ~probe.called
    /\ calls = MaxCalls \/ ~IsNil(err)
    /\ \E s \in ProbeStrings : probe' = [called |-> TRUE, s |-> s, result |-> IsSkolemIRI(s)]
    /\ UNCHANGED <<r, dst, err, calls, marks, errs, source, entropy, expect>>

Next == ReadAppendCall \/ IsSkolemIRICall


(***************************************************************************)
(* Statements with predicate lists and object lists                        *)
(***************************************************************************)
\* most predicates in a generated statement, most objects per predicate
MaxPreds == 2

MaxObjs == 2

Subjects == <<AbsIRI(<<"<", "x", ":", "s", ">">>, <<"x", ":", "s">>), AbsIRI(<<"<", "x", ":", "t", ">">>, <<"x", ":", "t">>)>>

Predicates ==
    <<AbsIRI(<<"<", "x", ":", "p", ">">>, <<"x", ":", "p">>), Term(<<"a">>, "abs", RDFType, <<>>, <<>>, <<>>, "iri", FALSE),
      AbsIRI(<<"<", "x", ":", "q", ">">>, <<"x", ":", "q">>)>>

Objects ==
    <<AbsIRI(<<"<", "x", ":", "o", ">">>, <<"x", ":", "o">>), Quoted(<<"\"", "l", "\"">>, <<"l">>), Number(<<"2">>, XSDInteger),
      Keyword(<<"t", "r", "u", "e">>, <<"t", "r", "u", "e">>, XSDBoolean), Quoted(<<"'", "m", "'">>, <<"m">>)>>

Pick(terms, n) == terms[(n % Len(terms)) + 1]

\* a statement of nP predicates with nO objects each, its terms taken in
\* rotation from the lists above, starting at off
StmtOf(nP, nO, off) ==
    [subj |-> Pick(Subjects, off),
     po |-> [j \in 1..nP |-> [pred |-> Pick(Predicates, off + j),
                              objs |-> [k \in 1..nO |-> Pick(Objects, off + (j * nO) + k)]]]]

ListStmts == {StmtOf(nP, nO, off) : nP \in 1..MaxPreds, nO \in 1..MaxObjs, off \in 0..(Len(Objects) - 1)}

Joints == {<<>>, <<" ">>, <<"\n">>}

\* one statement, or two with the second one starting where the first ended
ListStreams ==
    {Stream(<<StmtItem(a, style)>>, joint, NoTail) : a \in ListStmts, style \in SepStyles, joint \in Joints}
    \cup {Stream(<<StmtItem(a, style), StmtItem(b, style)>>, joint, NoTail) :
            a \in ListStmts, b \in ListStmts, style \in SepStyles, joint \in Joints}

InitList == InitWith(ListStreams, {<<>>}, {<<>>}, {<<"1", "7", "a">>})

SpecList == InitList /\ [][Next]_vars

\* the triples that call k appended
Appended(k) == SubSeq(dst, marks[k] + 1, marks[k + 1])

\* calls 1..k all returned nil
AllNil(k) == \A j \in 1..k : IsNil(errs[j])

\* the part of the stream that the Reader has not consumed
Unread == r.pending \o r.R

\* the triples that statement k of the stream means, given the Reader's skolem root
Expected(k) == TriplesOf(expect.stmts[k].st, [expect.stmts[k].ctx EXCEPT !.root = r.skolemIRICache])

\* C1: a ReadAppend call that returns nil has appended one triple for every
\* (predicate, object) pair of the statement it read, in source order and all
\* with the statement's subject, and it has consumed the stream up to and
\* including the statement's '.', no further.
C1_OneTriplePerPair ==
    \A k \in 1..calls :
        AllNil(k) =>
            /\ k <= Len(expect.stmts)
            /\ Appended(k) = Expected(k)
            /\ k = calls => Unread = From(source, expect.stmts[k].end)

\* a second call has read a statement of two predicates with two objects each
\* that starts on the line where the first statement ended
C1_Witness ==
    /\ calls = 2
    /\ AllNil(2)
    /\ Len(Appended(2)) = 4
    /\ expect.joint = <<" ">>
    /\ Len(dst) > 4

(***************************************************************************)
(* Streams that end without a statement, or in the middle of one           *)
(***************************************************************************)
\* most items in front of the end of a generated stream
MaxItems == 2

PlainStmt ==
    [subj |-> AbsIRI(<<"<", "x", ":", "a", ">">>, <<"x", ":", "a">>),
     po |-> <<[pred |-> AbsIRI(<<"<", "x", ":", "b", ">">>, <<"x", ":", "b">>), objs |-> <<AbsIRI(<<"<", "x", ":", "c", ">">>, <<"x", ":", "c">>)>>]>>]

BaseAt == BaseItem(<<"@", "b", "a", "s", "e", " ", "<", "h", ":", "/", "/", "e", "/", ">", " ", ".">>, TRUE, <<"h", ":", "/", "/", "e", "/">>)

BaseSparql == BaseItem(<<"B", "A", "S", "E", " ", "<", "h", ":", "/", "/", "n", "/", ">">>, TRUE, <<"h", ":", "/", "/", "n", "/">>)

PrefixAt == PrefixItem(<<"@", "p", "r", "e", "f", "i", "x", " ", "p", ":", " ", "<", "h", ":", "/", "/", "e", "/", ">", " ", ".">>, <<"p">>, TRUE, <<"h", ":", "/", "/", "e", "/">>)

PrefixSparql == PrefixItem(<<"P", "R", "E", "F", "I", "X", " ", ":", " ", "<", "x", ":", ">">>, <<>>, TRUE, <<"x", ":">>)

EndItems == {StmtItem(PlainStmt, "space"), BaseAt, BaseSparql, PrefixAt, PrefixSparql}

\* the sequences of at most n items out of Pool
RECURSIVE ItemSeqs(_, _)
ItemSeqs(Pool, n) ==
    IF n = 0 THEN {<<>>}
    ELSE ItemSeqs(Pool, n - 1) \cup {Append(s, it) : s \in {q \in ItemSeqs(Pool, n - 1) : Len(q) = n - 1}, it \in Pool}

\* ends of a stream that hold no statement: white space and comments
NoneTails == {[kind |-> "none", text |-> t] : t \in {<<>>, <<"\n">>, <<"#", " ", "c">>, <<" ", "\t", "\r", "\n", "#", " ", "c", "\n", "\n">>}}

\* ends of a stream in the middle of a statement, the subject read
CutTails ==
    {[kind |-> "cut", text |-> t] :
        t \in {<<"<", "x", ":", "s", ">">>, <<"<", "x", ":", "s", ">", " ">>, <<"<", "x", ":", "s", ">", "\n">>, <<"<", "x", ":", "s", ">", " ", "<", "x", ":", "p", ">">>, <<"<", "x", ":", "s", ">", " ", "<", "x", ":", "p", ">", "\n", "<", "x", ":", "o", ">">>,
               <<"<", "x", ":", "s", ">", " ", "<", "x", ":", "p", ">", " ", "<", "x", ":", "o", ">", " ", ",">>, <<"<", "x", ":", "s", ">", " ", "<", "x", ":", "p", ">", " ", "<", "x", ":", "o", ">", " ", ";", "\n">>, <<"<", "x", ":", "s", ">", " ", "<", "x", ":", "p", ">", " ", "\"", "l", "\"">>, <<"<", "x", ":", "s", ">", " ", "a", " ", "2", " ", "#", " ", "c">>}}

EndStreams ==
    {Stream(items, joint, tail) : items \in ItemSeqs(EndItems, MaxItems), joint \in Joints,
                                  tail \in NoneTails \cup CutTails}

InitEnd == InitWith(EndStreams, {<<>>}, {<<>>}, {<<"1", "7", "a">>})

SpecEnd == InitEnd /\ [][Next]_vars

\* the call that comes after every statement of the stream has been read
AtEnd == calls = Len(expect.stmts) + 1 /\ AllNil(calls - 1)

\* C2: when what is left of the stream holds no statement (white space,
\* comments and complete directives only), ReadAppend returns io.EOF and
\* appends no triple.
C2_CleanEOF == (AtEnd /\ expect.tail = "none") => (IsEOF(err) /\ Appended(calls) = <<>>)

\* C3: when the stream ends after a subject and before the statement's '.',
\* ReadAppend returns io.ErrUnexpectedEOF, wherever the statement starts.
C3_UnexpectedEOF == (AtEnd /\ expect.tail = "cut") => err.kind = "UnexpectedEOF"

(***************************************************************************)
(* Base directives and relative references                                 *)
(***************************************************************************)
\* most items in a generated stream of base directives and statements
MaxBaseItems == 4

RelStmt ==
    [subj |-> RelIRI(<<"<", "s", ">">>, <<"s">>),
     po |-> <<[pred |-> RelIRI(<<"<", "p", ">">>, <<"p">>), objs |-> <<RelIRI(<<"<", "o", "/", "i", ">">>, <<"o", "/", "i">>)>>]>>]

\* a base that names a file: references resolve against its directory
BaseFile == BaseItem(<<"@", "b", "a", "s", "e", " ", "<", "h", ":", "/", "/", "e", "/", "f", ">", " ", ".">>, TRUE, <<"h", ":", "/", "/", "e", "/">>)

BaseRel == BaseItem(<<"b", "A", "s", "E", " ", "<", "d", "/", ">">>, FALSE, <<"d", "/">>)

BaseAtRel == BaseItem(<<"@", "b", "a", "s", "e", " ", "<", "g", "/", ">", " ", ".">>, FALSE, <<"g", "/">>)

BaseItems == {StmtItem(RelStmt, "space"), BaseAt, BaseSparql, BaseFile, BaseRel, BaseAtRel}

\* the base IRI that the caller may have set on the Reader
CallerBase == <<"h", ":", "/", "/", "i", "/">>

BaseStreams ==
    {Stream(items, joint, NoTail) : items \in ItemSeqs(BaseItems, MaxBaseItems), joint \in {<<" ">>, <<"\n">>}}

InitBase == InitWith(BaseStreams, {<<>>, CallerBase}, {<<>>}, {<<"1", "7", "a">>})

SpecBase == InitBase /\ [][Next]_vars

\* the directory of the base IRI in force where statement k stands
BaseInForce(k) == expect.stmts[k].ctx.dir

\* C4: every relative reference of a statement that was read is resolved
\* against the base set by the most recent directive in front of it, a relative
\* base being resolved against the base before it; triples read earlier stay
\* as they were.
C4_LatestBase ==
    \A k \in 1..calls :
        AllNil(k) =>
            /\ k <= Len(expect.stmts)
            /\ Appended(k) =
                 <<[SubjectIRI |-> BaseInForce(k) \o <<"s">>, PredicateIRI |-> BaseInForce(k) \o <<"p">>,
                    Object |-> BaseInForce(k) \o <<"o", "/", "i">>, DatatypeIRI |-> <<>>, LangTag |-> <<>>]>>

\* two statements were read with a relative base directive between them, and
\* their subjects differ
C4_Witness ==
    /\ calls >= 2
    /\ AllNil(2)
    /\ expect.stmts[2].directives > 0
    /\ BaseInForce(2) \in {<<"h", ":", "/", "/", "e", "/", "d", "/">>, <<"h", ":", "/", "/", "n", "/", "g", "/">>, <<"h", ":", "/", "/", "i", "/", "d", "/", "g", "/">>}
    /\ dst[1].SubjectIRI # dst[2].SubjectIRI

(***************************************************************************)
(* Prefix directives and prefixed names                                    *)
(***************************************************************************)
\* most items in front of the last statement of a generated stream of prefix
\* directives and statements
MaxPrefixItems == 3

PrefixOver == PrefixItem(<<"P", "R", "E", "F", "I", "X", " ", "p", ":", " ", "<", "h", ":", "/", "/", "n", "/", ">">>, <<"p">>, TRUE, <<"h", ":", "/", "/", "n", "/">>)

PrefixEmpty == PrefixItem(<<"@", "p", "r", "e", "f", "i", "x", " ", ":", " ", "<", "x", ":", ">", " ", ".">>, <<>>, TRUE, <<"x", ":">>)

PrefixRel == PrefixItem(<<"p", "r", "e", "f", "i", "x", " ", "q", ":", " ", "<", "d", "/", ">">>, <<"q">>, FALSE, <<"d", "/">>)

\* p:s p:p p:o .
PStmt ==
    [subj |-> PName(<<"p", ":", "s">>, <<"p">>, <<"s">>),
     po |-> <<[pred |-> PName(<<"p", ":", "p">>, <<"p">>, <<"p">>), objs |-> <<PName(<<"p", ":", "o">>, <<"p">>, <<"o">>)>>]>>]

\* :s q:p "l"^^p:t .
MixStmt ==
    [subj |-> PName(<<":", "s">>, <<>>, <<"s">>),
     po |-> <<[pred |-> PName(<<"q", ":", "p">>, <<"q">>, <<"p">>),
               objs |-> <<QuotedRef(<<"\"", "l", "\"", "^", "^", "p", ":", "t">>, <<"l">>, "pname", <<"p">>, <<"t">>)>>]>>]

\* statements that use the label u, which no directive binds, in each position
UnboundStmts ==
    {[subj |-> PName(<<"u", ":", "s">>, <<"u">>, <<"s">>),
      po |-> <<[pred |-> AbsIRI(<<"<", "x", ":", "p", ">">>, <<"x", ":", "p">>), objs |-> <<AbsIRI(<<"<", "x", ":", "o", ">">>, <<"x", ":", "o">>)>>]>>],
     [subj |-> AbsIRI(<<"<", "x", ":", "s", ">">>, <<"x", ":", "s">>),
      po |-> <<[pred |-> PName(<<"u", ":", "p">>, <<"u">>, <<"p">>), objs |-> <<AbsIRI(<<"<", "x", ":", "o", ">">>, <<"x", ":", "o">>)>>]>>],
     [subj |-> AbsIRI(<<"<", "x", ":", "s", ">">>, <<"x", ":", "s">>),
      po |-> <<[pred |-> AbsIRI(<<"<", "x", ":", "p", ">">>, <<"x", ":", "p">>), objs |-> <<PName(<<"u", ":", "o">>, <<"u">>, <<"o">>)>>]>>],
     [subj |-> AbsIRI(<<"<", "x", ":", "s", ">">>, <<"x", ":", "s">>),
      po |-> <<[pred |-> AbsIRI(<<"<", "x", ":", "p", ">">>, <<"x", ":", "p">>),
                objs |-> <<QuotedRef(<<"\"", "l", "\"", "^", "^", "u", ":", "t">>, <<"l">>, "pname", <<"u">>, <<"t">>)>>]>>]}

PrefixItems ==
    {PrefixAt, PrefixOver, PrefixEmpty, PrefixRel, BaseAt, StmtItem(PStmt, "space"), StmtItem(MixStmt, "space")}

PrefixStreams ==
    {Stream(Append(items, StmtItem(st, "space")), joint, NoTail) :
        items \in ItemSeqs(PrefixItems, MaxPrefixItems), st \in UnboundStmts \cup {PStmt, MixStmt},
        joint \in {<<" ">>, <<"\n">>}}

InitPrefix == InitWith(PrefixStreams, {CallerBase}, {<<>>}, {<<"1", "7", "a">>})

SpecPrefix == InitPrefix /\ [][Next]_vars

\* statement k of the stream uses a label that no directive in front of it binds
Unbound(k) == \E term \in TermsOf(expect.stmts[k].st) : ~Defined(term, expect.stmts[k].ctx)

\* C5: a prefixed name in subject, predicate, object or datatype position
\* expands to the IRI that the most recent directive for its label bound,
\* itself resolved against the base in force at the directive, followed by the
\* local part; a statement with a label that has no binding is a SyntaxError.
C5_PrefixedNames ==
    \A k \in 1..calls :
        /\ AllNil(k) => (k <= Len(expect.stmts) /\ ~Unbound(k) /\ Appended(k) = Expected(k))
        /\ (AllNil(k - 1) /\ k <= Len(expect.stmts) /\ Unbound(k)) => errs[k].kind = "SyntaxError"

\* two statements were read with the label p bound anew between them
C5_Witness ==
    /\ calls = 2
    /\ AllNil(2)
    /\ expect.stmts[2].directives = 1
    /\ dst[1].SubjectIRI = <<"h", ":", "/", "/", "e", "/", "s">>
    /\ dst[2].SubjectIRI = <<"h", ":", "/", "/", "n", "/", "s">>

(***************************************************************************)
(* Blank node labels and the skolem namespace                              *)
(***************************************************************************)
\* most statements in a generated stream with blank node labels
MaxBlankItems == 3

\* _:a <x:p> _:b .
BlankStmtAB ==
    [subj |-> Blank(<<"_", ":", "a">>, <<"a">>),
     po |-> <<[pred |-> AbsIRI(<<"<", "x", ":", "p", ">">>, <<"x", ":", "p">>), objs |-> <<Blank(<<"_", ":", "b">>, <<"b">>)>>]>>]

\* _:b <x:q> _:a .
BlankStmtBA ==
    [subj |-> Blank(<<"_", ":", "b">>, <<"b">>),
     po |-> <<[pred |-> AbsIRI(<<"<", "x", ":", "q", ">">>, <<"x", ":", "q">>), objs |-> <<Blank(<<"_", ":", "a">>, <<"a">>)>>]>>]

\* <x:s> <x:p> _:a , _:ab .
BlankStmtList ==
    [subj |-> AbsIRI(<<"<", "x", ":", "s", ">">>, <<"x", ":", "s">>),
     po |-> <<[pred |-> AbsIRI(<<"<", "x", ":", "p", ">">>, <<"x", ":", "p">>), objs |-> <<Blank(<<"_", ":", "a">>, <<"a">>), Blank(<<"_", ":", "a", "b">>, <<"a", "b">>)>>]>>]

BlankItems == {StmtItem(st, "space") : st \in {BlankStmtAB, BlankStmtBA, BlankStmtList, PlainStmt}}

BlankStreams ==
    {Stream(items, joint, NoTail) : items \in ItemSeqs(BlankItems, MaxBlankItems), joint \in {<<" ">>, <<"\n">>}}

\* the skolem root that the test of the package seeds its Reader with
StubRoot == <<"h", "t", "t", "p", ":", "/", "/", "e", "x", "a", "m", "p", "l", "e", ".", "c", "o", "m", "/", "s", "k", "o", "l", "e", "m", "-", "s", "t", "u", "b", "/">>

InitBlank == InitWith(BlankStreams, {<<>>}, {<<>>, StubRoot}, {<<"1", "7", "a">>, <<"2", "b">>})

SpecBlank == InitBlank /\ [][Next]_vars

\* C6: every occurrence of a blank node label, in subject or object position
\* and over all calls, maps to the Reader's skolem root followed by "blank#"
\* and the label's name, so that equal labels give equal IRIs and different
\* labels different ones; and the skolem root, once set, never changes.
C6_BlankLabels ==
    /\ [](\A k \in 1..calls : AllNil(k) => (k <= Len(expect.stmts) /\ Appended(k) = Expected(k)))
    /\ [][r.skolemIRICache # <<>> => r'.skolemIRICache = r.skolemIRICache]_vars

\* the label a was read as subject by one call and as object by the next one,
\* with a root that the Reader made itself
C6_Witness ==
    /\ calls >= 2
    /\ AllNil(2)
    /\ dst[1].SubjectIRI = dst[2].Object
    /\ dst[1].Object = dst[2].SubjectIRI
    /\ dst[1].SubjectIRI = skolemIRIRoot \o entropy \o <<"/", "b", "l", "a", "n", "k", "#", "a">>
    /\ dst[1].Object = skolemIRIRoot \o entropy \o <<"/", "b", "l", "a", "n", "k", "#", "b">>

\* C7: IsSkolemIRI(s) is true exactly when s begins with the reserved
\* namespace "web+skolem://quies.net/".
C7_ReservedNamespace == probe.called => (probe.result <=> HasPrefix(probe.s, skolemIRIRoot))

(***************************************************************************)
(* Objects of every kind                                                   *)
(***************************************************************************)
NodeObjects == {AbsIRI(<<"<", "x", ":", "o", ">">>, <<"x", ":", "o">>), PName(<<"p", ":", "o">>, <<"p">>, <<"o">>), Blank(<<"_", ":", "b">>, <<"b">>)}

\* quoted literals in the four quote modes, with neither datatype nor language tag
PlainLiterals == {Quoted(<<"\"", "l", "\"">>, <<"l">>), Quoted(<<"'", "m", "'">>, <<"m">>), Quoted(<<"\"", "\"", "\"", "n", "\"", "\"", "\"">>, <<"n">>), Quoted(<<"'", "'", "'", "k", "'", "'", "'">>, <<"k">>)}

TypedLiterals ==
    {QuotedRef(<<"\"", "l", "\"", "^", "^", "<", "x", ":", "d", ">">>, <<"l">>, "abs", <<>>, <<"x", ":", "d">>), QuotedRef(<<"'", "m", "'", "^", "^", "p", ":", "t">>, <<"m">>, "pname", <<"p">>, <<"t">>)}

\* literals with a language tag; the tag of the triple is in lower case
TaggedLiterals ==
    {QuotedAs(<<"\"", "l", "\"", "@", "e", "n">>, <<"l">>, RDFLangString, <<"e", "n">>, FALSE),
     QuotedAs(<<"'", "m", "'", "@", "E", "N", "-", "G", "B">>, <<"m">>, RDFLangString, <<"e", "n", "-", "g", "b">>, FALSE),
     QuotedAs(<<"\"", "\"", "\"", "n", "\"", "\"", "\"", "@", "E", "n">>, <<"n">>, RDFLangString, <<"e", "n">>, FALSE)}

\* literals with escape sequences; the value holds the character each one denotes
EscapedLiterals ==
    {Quoted(<<"\"", "a", "\\", "t", "b", "\"">>, <<"a", "\t", "b">>), Quoted(<<"'", "a", "\\", "'", "b", "'">>, <<"a", "'", "b">>), Quoted(<<"\"", "a", "\\", "\"", "b", "\"">>, <<"a", "\"", "b">>),
     Quoted(<<"\"", "\\", "u", "0", "0", "4", "1", "\"">>, <<"A">>), Quoted(<<"\"", "\"", "\"", "a", "\\", "n", "b", "\"", "\"", "\"">>, <<"a", "\n", "b">>), Quoted(<<"'", "'", "'", "a", "\\", "\"", "b", "'", "'", "'">>, <<"a", "\"", "b">>),
     Quoted(<<"'", "c", "\\", "\\", "'">>, <<"c", "\\">>)}

PlainNumbers == {Number(<<"2">>, XSDInteger), Number(<<"1", ".", "5">>, XSDDecimal), Number(<<"2", ".", "0", "e", "1">>, XSDDouble)}

Booleans == {Keyword(<<"t", "r", "u", "e">>, <<"t", "r", "u", "e">>, XSDBoolean), Keyword(<<"f", "a", "l", "s", "e">>, <<"f", "a", "l", "s", "e">>, XSDBoolean)}

AllObjects ==
    NodeObjects \cup PlainLiterals \cup TypedLiterals \cup TaggedLiterals \cup EscapedLiterals
    \cup PlainNumbers \cup Booleans

\* <x:s> <x:p> obj .
ObjStmt(obj) ==
    [subj |-> AbsIRI(<<"<", "x", ":", "s", ">">>, <<"x", ":", "s">>), po |-> <<[pred |-> AbsIRI(<<"<", "x", ":", "p", ">">>, <<"x", ":", "p">>), objs |-> <<obj>>]>>]

\* a prefix directive, and then one or two statements with one object each
ObjStreams ==
    {Stream(<<PrefixAt, StmtItem(ObjStmt(a), "space")>>, joint, NoTail) :
        a \in AllObjects, joint \in {<<" ">>, <<"\n">>}}
    \cup {Stream(<<PrefixAt, StmtItem(ObjStmt(a), "space"), StmtItem(ObjStmt(b), "space")>>, joint, NoTail) :
            a \in AllObjects, b \in AllObjects, joint \in {<<" ">>, <<"\n">>}}

InitObj == InitWith(ObjStreams, {<<>>}, {<<>>}, {<<"1", "7", "a">>})

SpecObj == InitObj /\ [][Next]_vars

\* the object term behind the i-th triple of statement k
ObjTerm(k, i) == Pairs(expect.stmts[k].st.po)[i].obj

\* the triples of call k that stand for a pair of statement k
Matched(k) == 1..(IF k <= Len(expect.stmts) THEN Len(Appended(k)) ELSE 0)

Plain(obj) == obj.kind = "quoted" /\ obj.dtref.form = "none" /\ obj.lang = <<>>

Escaped(obj) == obj.kind = "quoted" /\ \E n \in 1..Len(obj.text) : obj.text[n] = "\\"

\* C8: the DatatypeIRI of a triple is empty exactly when its object was
\* written as an IRI, a prefixed name or a blank node; a LangTag comes only
\* with the datatype rdf:langString; a quoted literal with neither '^^' nor
\* '@' has the datatype xsd:string.
C8_DatatypeByKind ==
    /\ \A j \in 1..Len(dst) : dst[j].LangTag # <<>> => dst[j].DatatypeIRI = RDFLangString
    /\ \A k \in 1..calls :
          AllNil(k) =>
              /\ k <= Len(expect.stmts)
              /\ Len(Appended(k)) = Len(Pairs(expect.stmts[k].st.po))
              /\ \A i \in Matched(k) :
                    /\ Appended(k)[i].DatatypeIRI = <<>> <=> ObjTerm(k, i).kind \in {"iri", "pname", "blank"}
                    /\ Plain(ObjTerm(k, i)) => Appended(k)[i].DatatypeIRI = XSDString

\* a node object and a literal with a language tag were read one after the other
C8_Witness ==
    /\ calls = 2
    /\ AllNil(2)
    /\ Len(dst) = 2
    /\ dst[1].DatatypeIRI = <<>>
    /\ ObjTerm(1, 1).kind = "pname"
    /\ dst[2].LangTag # <<>>
    /\ dst[2].DatatypeIRI = RDFLangString

\* C9: the LangTag of a triple is the tag of its literal in lower case.
C9_LowerCaseTag ==
    \A k \in 1..calls :
        AllNil(k) => \A i \in Matched(k) : ObjTerm(k, i).lang # <<>> => Appended(k)[i].LangTag = ObjTerm(k, i).lang

\* C10: the Object of a quoted literal with escape sequences holds, for each
\* sequence, the character it denotes, in every quote mode.
C10_EscapesDecoded ==
    \A k \in 1..calls :
        AllNil(k) => \A i \in Matched(k) : Escaped(ObjTerm(k, i)) => Appended(k)[i].Object = ObjTerm(k, i).val

(***************************************************************************)
(* Long quoted literals                                                    *)
(***************************************************************************)
\* most pieces in the content of a generated long quoted literal
MaxPieces == 3

OtherQuote(quote) == IF quote = "\"" THEN "'" ELSE "\""

\* the pieces that the content of a long literal in the given quotes is made
\* of, each with its text and the characters it stands for: a letter, a line
\* feed, a space, a '#', three quotes of the other kind, one and two quotes of
\* the same kind, and an escape sequence
LongPieces(quote) ==
    {[text |-> <<"a">>, val |-> <<"a">>], [text |-> <<"\n">>, val |-> <<"\n">>], [text |-> <<" ">>, val |-> <<" ">>],
     [text |-> <<"#">>, val |-> <<"#">>],
     [text |-> <<OtherQuote(quote), OtherQuote(quote), OtherQuote(quote)>>,
      val |-> <<OtherQuote(quote), OtherQuote(quote), OtherQuote(quote)>>],
     [text |-> <<quote>>, val |-> <<quote>>], [text |-> <<quote, quote>>, val |-> <<quote, quote>>],
     [text |-> <<"\\", "t">>, val |-> <<"\t">>]}

\* content that the grammar allows between the quotes: never three quotes of
\* the same kind in a row, and no quote of that kind at the end
LongContent(text, quote) ==
    /\ \A n \in 1..(Len(text) - 2) : ~(text[n] = quote /\ text[n + 1] = quote /\ text[n + 2] = quote)
    /\ text # <<>> => Last(text) # quote

\* the long literal with the given pieces between its quotes
LongTerm(quote, pieces) ==
    Quoted(<<quote, quote, quote>> \o Cat([n \in 1..Len(pieces) |-> pieces[n].text]) \o <<quote, quote, quote>>,
           Cat([n \in 1..Len(pieces) |-> pieces[n].val]))

LongLiterals ==
    {LongTerm(quote, pieces) : quote \in {"\""}, pieces \in ItemSeqs(LongPieces("\""), MaxPieces)}
    \cup {LongTerm(quote, pieces) : quote \in {"'"}, pieces \in ItemSeqs(LongPieces("'"), MaxPieces)}

\* the text between the opening and the closing quotes of a long literal
Between(obj) == SubSeq(obj.text, 4, Len(obj.text) - 3)

\* a statement with a long literal, alone or with a statement after it
LongStreams ==
    {Stream(<<StmtItem(ObjStmt(lit), "space")>>, <<"\n">>, NoTail) :
        lit \in {l \in LongLiterals : LongContent(Between(l), l.text[1])}}
    \cup {Stream(<<StmtItem(ObjStmt(lit), "space"), StmtItem(PlainStmt, "space")>>, <<"\n">>, NoTail) :
            lit \in {l \in LongLiterals : LongContent(Between(l), l.text[1])}}

InitLong == InitWith(LongStreams, {<<>>}, {<<>>}, {<<"1", "7", "a">>})

SpecLong == InitLong /\ [][Next]_vars

\* statement k of the stream has a long literal in the given quotes as its object
LongIn(k, quote) ==
    /\ k <= Len(expect.stmts)
    /\ ObjTerm(k, 1).kind = "quoted"
    /\ SubSeq(ObjTerm(k, 1).text, 1, 3) = <<quote, quote, quote>>

\* C11: a literal opened with three double quotes ends at the next three
\* double quotes in a row and nowhere else, over several lines and with an
\* escape as well: the call that reads its statement returns nil with one
\* triple and has consumed the stream up to the statement's '.', whatever
\* apostrophes and single or double double quotes the literal holds.
C11_ClosedByThreeQuotes ==
    \A k \in 1..calls :
        (AllNil(k - 1) /\ LongIn(k, "\"")) =>
            /\ IsNil(errs[k])
            /\ Len(Appended(k)) = 1
            /\ k = calls => Unread = From(source, expect.stmts[k].end)

\* C12: the Object of a triple read from a long literal without escapes is
\* the text between the opening and the closing quotes, byte for byte.
C12_LongContentKept ==
    \A k \in 1..calls :
        (AllNil(k - 1) /\ (LongIn(k, "\"") \/ LongIn(k, "'")) /\ ~Escaped(ObjTerm(k, 1))) =>
            \A i \in Matched(k) : Appended(k)[i].Object = Between(ObjTerm(k, 1))

(***************************************************************************)
(* Numbers                                                                 *)
(***************************************************************************)
\* most digits in each run of digits of a generated number
MaxDigits == 2

\* a run of n digits
DigitRun(n) == [k \in 1..n |-> IF k % 2 = 1 THEN "7" ELSE "0"]

DigitRuns == {DigitRun(n) : n \in 1..MaxDigits}

Signs == {<<>>, <<"+">>, <<"-">>}

\* the fraction and the exponent of a number, <<>> for none
Fractions == {<<>>} \cup {<<".">> \o run : run \in DigitRuns}

Exponents == {<<>>} \cup {<<e>> \o sign \o run : e \in {"E", "e"}, sign \in Signs, run \in DigitRuns}

\* the datatype that the shape of a number stands for
NumberType(fraction, exponent) ==
    IF exponent # <<>> THEN XSDDouble ELSE IF fraction # <<>> THEN XSDDecimal ELSE XSDInteger

\* sign, digits, and then an optional fraction and an optional exponent
Numbers ==
    {Number(sign \o run \o fraction \o exponent, NumberType(fraction, exponent)) :
        sign \in Signs, run \in DigitRuns, fraction \in Fractions, exponent \in Exponents}

\* a token that starts like a number and is none
Malformed(text) == Term(text, "lit", text, <<>>, <<>>, <<>>, "malformed", FALSE)

\* a sign alone, a fraction without digits, an exponent without digits
MalformedNumbers ==
    {Malformed(sign) : sign \in Signs \ {<<>>}}
    \cup {Malformed(sign \o run \o <<".">>) : sign \in Signs, run \in DigitRuns}
    \cup {Malformed(sign \o run \o fraction \o <<e>> \o esign) :
            sign \in Signs, run \in DigitRuns, fraction \in Fractions \ {<<>>}, e \in {"E", "e"}, esign \in Signs}

\* a statement with a number, alone or with a statement after it
NumStreams ==
    {Stream(<<StmtItem(ObjStmt(n), "space")>>, <<"\n">>, NoTail) : n \in Numbers \cup MalformedNumbers}
    \cup {Stream(<<StmtItem(ObjStmt(n), "space"), StmtItem(PlainStmt, "space")>>, <<"\n">>, NoTail) :
            n \in Numbers \cup MalformedNumbers}

InitNum == InitWith(NumStreams, {<<>>}, {<<>>}, {<<"1", "7", "a">>})

SpecNum == InitNum /\ [][Next]_vars

\* statement k of the stream has an object of the given kind
KindIn(k, kind) == k <= Len(expect.stmts) /\ ObjTerm(k, 1).kind = kind

\* C13: the call that reads a statement whose object is a number returns nil
\* with one triple, whose Object is the token as written and whose DatatypeIRI
\* is xsd:integer, xsd:decimal or xsd:double after the token's shape, for any
\* number of digits and with or without a sign; a bare sign, an empty fraction
\* and an empty exponent give a SyntaxError.
C13_NumbersByShape ==
    \A k \in 1..calls :
        /\ (AllNil(k - 1) /\ KindIn(k, "number")) => (IsNil(errs[k]) /\ Appended(k) = Expected(k))
        /\ (AllNil(k - 1) /\ KindIn(k, "malformed")) => errs[k].kind = "SyntaxError"

(***************************************************************************)
(* Boolean keywords                                                        *)
(***************************************************************************)
\* Triple.XSDBoolean: [value, err]
Triple_XSDBoolean(t) ==
    IF t.DatatypeIRI # XSDBoolean THEN [value |-> FALSE, err |-> "errXSDBoolean"]
    ELSE CASE t.Object \in {<<"f", "a", "l", "s", "e">>, <<"0">>} -> [value |-> FALSE, err |-> "nil"]
           [] t.Object \in {<<"t", "r", "u", "e">>, <<"1">>} -> [value |-> TRUE, err |-> "nil"]
           [] OTHER -> [value |-> FALSE, err |-> "errXSDBooleanSyntax"]

\* C14: the triple read from a bare keyword true or false has the datatype
\* xsd:boolean and the keyword as its Object, and Triple.XSDBoolean returns
\* true for true and false for false, without an error.
C14_BooleanKeywords ==
    \A k \in 1..calls :
        (AllNil(k) /\ KindIn(k, "boolean")) =>
            /\ Len(Appended(k)) = 1
            /\ Appended(k)[1].DatatypeIRI = XSDBoolean
            /\ Appended(k)[1].Object = ObjTerm(k, 1).text
            /\ Triple_XSDBoolean(Appended(k)[1]) = [value |-> ObjTerm(k, 1).text = <<"t", "r", "u", "e">>, err |-> "nil"]

(***************************************************************************)
(* Statements that the recognizers do not finish                           *)
(***************************************************************************)
\* ends of a stream that hold a statement with a nested node: an anonymous
\* node with a predicate-object list, or a collection
NestedTails ==
    {[kind |-> "nested", text |-> t] :
        t \in {<<"<", "x", ":", "s", ">", " ", "<", "x", ":", "p", ">", " ", "[", " ", "<", "x", ":", "q", ">", " ", "<", "x", ":", "o", ">", " ", "]", " ", ".", "\n">>, <<"<", "x", ":", "s", ">", " ", "<", "x", ":", "p", ">", " ", "[", " ", "<", "x", ":", "q", ">", " ", "<", "x", ":", "o", ">", " ", ";", " ", "<", "x", ":", "r", ">", " ", "\"", "l", "\"", " ", "]", " ", ".", "\n">>,
               <<"<", "x", ":", "s", ">", " ", "<", "x", ":", "p", ">", " ", "(", " ", "<", "x", ":", "a", ">", " ", "<", "x", ":", "b", ">", " ", ")", " ", ".", "\n">>, <<"[", " ", "<", "x", ":", "q", ">", " ", "<", "x", ":", "o", ">", " ", "]", " ", "<", "x", ":", "p", ">", " ", "<", "x", ":", "o", ">", " ", ".", "\n">>,
               <<"(", " ", "<", "x", ":", "a", ">", " ", ")", " ", "<", "x", ":", "p", ">", " ", "<", "x", ":", "o", ">", " ", ".", "\n">>}}

\* ends of a stream that hold a statement of another kind: a backslash in an
\* IRI reference, a backslash in the last bytes of a line within a short quoted
\* literal, a reference that is no URL, and statements that are right, cut
\* short or wrong in some other way
OtherTails ==
    {[kind |-> "other", text |-> t] :
        t \in {<<"<", "x", ":", "a", "\\", "u", "0", "0", "6", "2", ">", " ", "<", "x", ":", "p", ">", " ", "<", "x", ":", "o", ">", " ", ".", "\n">>, <<"<", "x", ":", "s", ">", " ", "<", "x", ":", "p", ">", " ", "<", "x", ":", "\\", "u", "0", "0", "6", "f", ">", " ", ".", "\n">>, <<"<", "x", ":", "s", ">", " ", "<", "x", ":", "p", ">", " ", "\"", "a", "\\", "\n">>, <<"<", "x", ":", "s", ">", " ", "<", "x", ":", "p", ">", " ", "\"", "\\", "t", "\"">>,
               <<"<", "x", ":", "s", ">", " ", "<", "x", ":", "p", ">", " ", "'", "a", "\\", "\n">>, <<"<", "x", ":", "s", ">", " ", "<", "x", ":", "p", ">", " ", "<", ":", "o", ">", " ", ".", "\n">>, <<"<", "x", ":", "s", ">", " ", "<", "x", ":", "p", ">", " ", "[", "]", " ", ".", "\n">>, <<"<", "x", ":", "s", ">", " ", "<", "x", ":", "p", ">", " ", "\"", "a", "\\", "t", "b", "\"", " ", ".", "\n">>,
               <<"<", "x", ":", "s", ">", " ", "<", "x", ":", "p", ">", " ", "<", "x", ":", "o", ">", " ", ",">>, <<"<", "x", ":", "s", ">", " ", "<", "x", ":", "p", ">", " ", "<", "x", " ", "o", ">", " ", ".", "\n">>, <<"<", "x", ":", "s", ">", " ", "<", "x", ":", "p", ">", " ", ".", "\n">>, <<"<", "x", ":", "s", ">", " ", "<", "x", ":", "p", ">", " ", "\"", "l">>}}

\* one of these statements after at most MaxItems plain statements
RawStreams ==
    {Stream(items, joint, tail) : items \in ItemSeqs({StmtItem(PlainStmt, "space")}, MaxItems),
                                  joint \in {<<" ">>, <<"\n">>}, tail \in NestedTails \cup OtherTails}

InitRaw == InitWith(RawStreams, {<<>>}, {<<>>}, {<<"1", "7", "a">>})

SpecRaw == InitRaw /\ [][Next]_vars

\* the outcomes of a ReadAppend call that returns: nil, io.EOF, an error that
\* wraps io.ErrUnexpectedEOF, and a *SyntaxError (the streams of the model have
\* no other read error than the end)
Returned == {"nil", "EOF", "UnexpectedEOF", "SyntaxError"}

\* C15: every ReadAppend call that ends, ends with nil, io.EOF, an error that
\* matches io.ErrUnexpectedEOF or a *SyntaxError; none aborts with a panic,
\* whether on a backslash in an IRI reference, on a collection, on an anonymous
\* node with a predicate-object list, or on a backslash in the last bytes of a
\* line within a short quoted literal.
C15_NoPanic == \A k \in 1..calls : errs[k].kind # "hang" => errs[k].kind \in Returned

\* C16: the call that reads a statement with a nested anonymous node or a
\* collection returns nil; the last triple it appended is the one of the
\* enclosing statement, which refers to a node under the Reader's skolem root,
\* and the triples in front of it are the nested ones, with that node as the
\* subject of at least one of them.
C16_NestedFirst ==
    (AtEnd /\ expect.tail = "nested") =>
        /\ IsNil(err)
        /\ Len(Appended(calls)) >= 2
        /\ r.skolemIRICache # <<>>
        /\ \E node \in {Last(Appended(calls)).SubjectIRI, Last(Appended(calls)).Object} :
              /\ HasPrefix(node, r.skolemIRICache)
              /\ \E j \in 1..(Len(Appended(calls)) - 1) : Appended(calls)[j].SubjectIRI = node
              /\ \A j \in 1..(Len(Appended(calls)) - 1) : HasPrefix(Appended(calls)[j].SubjectIRI, r.skolemIRICache)

(***************************************************************************)
(* Statements with an object that is not recognized                        *)
(***************************************************************************)
GoodObjects == <<AbsIRI(<<"<", "x", ":", "o", ">">>, <<"x", ":", "o">>), Quoted(<<"\"", "l", "\"">>, <<"l">>), Number(<<"2">>, XSDInteger)>>

\* tokens in object position that readObject answers with an error: an
\* illegal character and a space in an IRI reference, a label that is not
\* bound, a sign alone, and a word that is no keyword
BadObjects == {Malformed(<<"<", "x", "|", "o", ">">>), Malformed(<<"<", "x", ":", "o">>), Malformed(<<"u", ":", "o">>), Malformed(<<"+">>), Malformed(<<"x">>)}

\* the statement of StmtOf with good objects, and with the object of pair
\* number at (counted over the whole statement) replaced by bad
FrameStmt(nP, nO, at, bad) ==
    [subj |-> Pick(Subjects, 0),
     po |-> [j \in 1..nP |-> [pred |-> Pick(Predicates, j),
                              objs |-> [k \in 1..nO |-> IF ((j - 1) * nO) + k = at THEN bad
                                                        ELSE Pick(GoodObjects, j + k)]]]]

FrameStmts ==
    {FrameStmt(nP, nO, 0, Pick(GoodObjects, 0)) : nP \in 1..MaxPreds, nO \in 1..MaxObjs}
    \cup UNION {{FrameStmt(nP, nO, at, bad) : at \in 1..(nP * nO), bad \in BadObjects} :
                    nP \in 1..MaxPreds, nO \in 1..MaxObjs}

\* one such statement, alone or after a plain statement that fills the sink
FrameStreams ==
    {Stream(<<StmtItem(st, style)>>, <<"\n">>, NoTail) : st \in FrameStmts, style \in {"space", "newline"}}
    \cup {Stream(<<StmtItem(PlainStmt, "space"), StmtItem(st, style)>>, <<"\n">>, NoTail) :
            st \in FrameStmts, style \in {"space", "newline"}}

InitFrame == InitWith(FrameStreams, {<<>>}, {<<>>}, {<<"1", "7", "a">>})

SpecFrame == InitFrame /\ [][Next]_vars

\* the number of the first pair of statement k whose object is not recognized,
\* one more than the number of pairs when there is none
FirstBad(k) ==
    IF \E i \in 1..Len(Pairs(expect.stmts[k].st.po)) : ObjTerm(k, i).kind = "malformed"
    THEN CHOOSE i \in 1..Len(Pairs(expect.stmts[k].st.po)) :
            /\ ObjTerm(k, i).kind = "malformed"
            /\ \A j \in 1..(i - 1) : ObjTerm(k, j).kind # "malformed"
    ELSE Len(Pairs(expect.stmts[k].st.po)) + 1

\* C17: a ReadAppend call leaves the triples that were in the sink where they
\* are and as they are, whether it returns nil or an error; a call that fails
\* at an object has appended the triples of the pairs in front of that object
\* and none for the object itself.
C17_SinkKept ==
    /\ [][Len(dst') >= Len(dst) /\ SubSeq(dst', 1, Len(dst)) = dst]_vars
    /\ [](\A k \in 1..calls :
            (AllNil(k - 1) /\ k <= Len(expect.stmts)) =>
                /\ Appended(k) = SubSeq(Expected(k), 1, FirstBad(k) - 1)
                /\ IsNil(errs[k]) <=> FirstBad(k) > Len(Expected(k)))

\* the second call failed at an object after it had appended a triple, with
\* the triple of the first call in the sink
C17_Witness ==
    /\ calls = 2
    /\ IsNil(errs[1])
    /\ errs[2].kind = "SyntaxError"
    /\ marks[2] = 1
    /\ Len(Appended(2)) >= 1
    /\ FirstBad(2) = Len(Appended(2)) + 1
    /\ dst[1] = Expected(1)[1]

(***************************************************************************)
(* Triple.String and back                                                  *)
(***************************************************************************)
\* most characters in the Object of a generated literal
MaxChars == 2

\* the verb %q of fmt.Sprintf on a string of the characters used here:
\* strconv.Quote, double quotes around the string with escape sequences for
\* the double quote, the backslash and the control characters
RECURSIVE QuoteBytes(_)
QuoteBytes(s) ==
    IF s = <<>> THEN <<>>
    ELSE (CASE Head(s) = "\"" -> <<"\\", "\"">>
            [] Head(s) = "\\" -> <<"\\", "\\">>
            [] Head(s) = "\n" -> <<"\\", "n">>
            [] Head(s) = "\t" -> <<"\\", "t">>
            [] Head(s) = "\r" -> <<"\\", "r">>
            [] OTHER -> <<Head(s)>>) \o QuoteBytes(Tail(s))

Quote(s) == <<"\"">> \o QuoteBytes(s) \o <<"\"">>

\* Triple.String: the N-Triples line of a triple, without the line feed
Triple_String(t) ==
    CASE t.DatatypeIRI = <<>> ->
            <<"<">> \o t.SubjectIRI \o <<">", " ", "<">> \o t.PredicateIRI \o <<">", " ", "<">> \o t.Object \o <<">", " ", ".">>
      [] t.LangTag = <<>> ->
            <<"<">> \o t.SubjectIRI \o <<">", " ", "<">> \o t.PredicateIRI \o <<">", " ">> \o Quote(t.Object)
            \o <<"^", "^", "<">> \o t.DatatypeIRI \o <<">", " ", ".">>
      [] OTHER ->
            <<"<">> \o t.SubjectIRI \o <<">", " ", "<">> \o t.PredicateIRI \o <<">", " ">> \o Quote(t.Object)
            \o <<"@">> \o t.LangTag \o <<" ", ".">>

\* the strings of at most n characters out of a letter, a space, an
\* apostrophe, a double quote, a backslash and a line feed
RECURSIVE Strings(_)
Strings(n) ==
    IF n = 0 THEN {<<>>}
    ELSE Strings(n - 1) \cup {Append(s, c) : s \in {q \in Strings(n - 1) : Len(q) = n - 1},
                                             c \in {"a", " ", "'", "\"", "\\", "\n"}}

\* triples whose object is not a blank node: an IRI, and literals with a
\* datatype or a language tag
RoundTriples ==
    {[SubjectIRI |-> <<"x", ":", "s">>, PredicateIRI |-> <<"x", ":", "p">>, Object |-> o, DatatypeIRI |-> <<>>, LangTag |-> <<>>] :
        o \in {<<"x", ":", "o">>, <<"h", "t", "t", "p", ":", "/", "/", "e", "/", "o", "#", "i">>}}
    \cup {[SubjectIRI |-> <<"x", ":", "s">>, PredicateIRI |-> <<"x", ":", "p">>, Object |-> o, DatatypeIRI |-> dt, LangTag |-> <<>>] :
            o \in Strings(MaxChars), dt \in {XSDString, <<"x", ":", "d">>}}
    \cup {[SubjectIRI |-> <<"x", ":", "s">>, PredicateIRI |-> <<"x", ":", "p">>, Object |-> o, DatatypeIRI |-> RDFLangString, LangTag |-> <<"e", "n">>] :
            o \in Strings(MaxChars)}

\* a triple as the statement of a stream; the text is what String makes of it
RoundItem(t) ==
    [type |-> "stmt", text |-> Triple_String(t),
     st |-> [subj |-> AbsIRI(<<>>, t.SubjectIRI),
             po |-> <<[pred |-> AbsIRI(<<>>, t.PredicateIRI),
                       objs |-> <<IF t.DatatypeIRI = <<>> THEN AbsIRI(<<>>, t.Object)
                                  ELSE QuotedAs(Quote(t.Object), t.Object, t.DatatypeIRI, t.LangTag, FALSE)>>]>>]]

\* t.String() followed by a line feed
RoundStreams == {Stream(<<RoundItem(t)>>, <<"\n">>, NoTail) : t \in RoundTriples}

\* a fresh Reader without base and prefixes
InitRound == InitWith(RoundStreams, {<<>>}, {<<>>}, {<<"1", "7", "a">>})

SpecRound == InitRound /\ [][Next]_vars

\* C18: a Reader that reads the line String made of a triple appends that
\* triple with the first call, which returns nil, and nothing but the end of
\* the stream follows; also for literals with double quotes, backslashes and
\* line feeds.
C18_RoundTrip ==
    /\ calls >= 1 => (IsNil(errs[1]) /\ Appended(1) = Expected(1))
    /\ calls >= 2 => (IsEOF(errs[2]) /\ Len(dst) = 1)

(***************************************************************************)
(* Short quoted literals with escape sequences, and numbers                *)
(***************************************************************************)
\* the pieces of a short quoted literal: a letter, and the escape sequences
\* of the tab, the backslash and the quote itself
ShortPieces(quote) ==
    {[text |-> <<"a">>, val |-> <<"a">>], [text |-> <<"\\", "t">>, val |-> <<"\t">>], [text |-> <<"\\", "\\">>, val |-> <<"\\">>],
     [text |-> <<"\\", quote>>, val |-> <<quote>>]}

\* the short literal with the given pieces between its quotes
ShortTerm(quote, pieces) ==
    Quoted(<<quote>> \o Cat([n \in 1..Len(pieces) |-> pieces[n].text]) \o <<quote>>,
           Cat([n \in 1..Len(pieces) |-> pieces[n].val]))

ShortLiterals ==
    {ShortTerm(quote, pieces) : quote \in {"\""}, pieces \in ItemSeqs(ShortPieces("\""), MaxPieces)}
    \cup {ShortTerm(quote, pieces) : quote \in {"'"}, pieces \in ItemSeqs(ShortPieces("'"), MaxPieces)}

\* a statement with such a literal or with a number, and a plain statement after it
HaltStreams ==
    {Stream(<<StmtItem(ObjStmt(obj), "space"), StmtItem(PlainStmt, "space")>>, <<"\n">>, NoTail) :
        obj \in ShortLiterals \cup Numbers}

InitHalt == InitWith(HaltStreams, {<<>>}, {<<>>}, {<<"1", "7", "a">>})

SpecHalt == InitHalt /\ [][Next]_vars

\* C19: every ReadAppend call returns: no recognizer goes round a loop
\* without moving on in its input, neither on a number with several digits or
\* with a sign in front of a digit, nor on a short quoted literal with two or
\* more escape sequences.
C19_EveryCallReturns == \A k \in 1..calls : errs[k].kind # "hang"

(***************************************************************************)
(* The pending line                                                        *)
(***************************************************************************)
\* C20: no byte of the stream is parsed twice: a statement that starts on
\* the line on which the previous one ended and goes on over further lines
\* is read like one that starts on a line of its own; the call returns nil
\* with the triples of the statement and has consumed the stream up to its
\* '.'.
C20_BytesReadOnce ==
    \A k \in 1..calls :
        (AllNil(k - 1) /\ k <= Len(expect.stmts)) =>
            /\ IsNil(errs[k])
            /\ Appended(k) = Expected(k)
            /\ k = calls => Unread = From(source, expect.stmts[k].end)

(***************************************************************************)
(* Line numbers of syntax errors                                           *)
(***************************************************************************)
\* what stands between the lines of a generated stream: a line feed, or a
\* line feed with a blank line and a comment line after it
LineJoints == {<<"\n">>, <<"\n", "\n", "#", " ", "c", "\n">>}

\* a line of more bytes than the buffer holds: a comment, and a statement
\* with a long literal
LongComment == <<"#", " ">> \o [n \in 1..BufSize |-> "c"] \o <<"\n">>

LongLine == <<"<", "x", ":", "s", ">", " ", "<", "x", ":", "p", ">", " ", "\"">> \o [n \in 1..BufSize |-> "l"] \o <<"\"", " ", ".", "\n">>

\* ends of a stream with a violation on the last line: statements that are
\* wrong in one place, on one line and over three lines, a line with a byte
\* that is not UTF-8, and lines that are too long
BadTails ==
    {[kind |-> "bad", text |-> t] :
        t \in {<<"<", "x", ":", "s", ">", " ", "<", "x", ":", "p", ">", " ", "<", "x", "|", "o", ">", " ", ".", "\n">>, <<"<", "x", ":", "s", ">", " ", "<", "x", ":", "p", ">", " ", "u", ":", "o", " ", ".", "\n">>, <<"<", "x", ":", "s", ">", " ", "<", "x", ":", "p", ">", " ", "+", " ", ".", "\n">>, <<"<", "x", ":", "s", ">", " ", "<", "x", ":", "p", ">", " ", "<", "x", ":", "o", ">", " ", "<", "x", ":", "o", ">", " ", ".", "\n">>,
               <<"<", "x", ":", "s", ">", " ", "<", "x", ":", "p", ">", " ", "\"", "l", "\"", "^", "x", " ", ".", "\n">>, <<"<", "x", ":", "s", ">", "\n", "<", "x", ":", "p", ">", "\n", "<", "x", "|", "o", ">", " ", ".", "\n">>, <<"<", "x", ":", "s", ">", " ", "<", "x", ":", "p", ">", " ", "<", "x", ":", "o", ">", " ", ";", "\n", "\n", "#", " ", "c", "\n", "<", "x", ":", "q", ">", " ", "x", " ", ".", "\n">>,
               <<"<", "x", ":", "s", ">", " ", "<", "x", ":", "p", ">", " ", "\"">> \o <<InvalidByte>> \o <<"\"", " ", ".", "\n">>, <<"#", " ">> \o <<InvalidByte>> \o <<"\n">>,
               LongComment, LongLine}}

\* at most MaxItems statements and directives, each followed by the joint, and
\* then one of these ends
LineStreams ==
    {Stream(items, joint, tail) :
        items \in ItemSeqs({StmtItem(PlainStmt, "space"), StmtItem(PlainStmt, "newline"), BaseAt, PrefixSparql}, MaxItems),
        joint \in LineJoints, tail \in BadTails}

InitLine == InitWith(LineStreams, {<<>>}, {<<>>}, {<<"1", "7", "a">>})

SpecLine == InitLine /\ [][Next]_vars

\* the number of the last line of the stream, counted from 1
LastLine == Cardinality({n \in 1..(Len(source) - 1) : source[n] = "\n"}) + 1

\* C21: a *SyntaxError carries the number of the line of the stream on which
\* the violation stands, counted from 1 over all lines, blank and comment
\* lines included; so does the error for a byte that is not UTF-8, and the
\* error for a line that is too long carries the number of that line.
C21_LineOfViolation ==
    /\ \A k \in 1..calls : errs[k].kind = "SyntaxError" => errs[k].LineNo = LastLine
    /\ (AtEnd /\ expect.tail = "bad") => err.kind = "SyntaxError"

(***************************************************************************)
(* Prefixed names with and without a local part                            *)
(***************************************************************************)
\* the names of a statement in each position, for the label p: one with a
\* local part and one without, next to an IRI reference
SubjNames == {PName(<<"p", ":">>, <<"p">>, <<>>), PName(<<"p", ":", "s">>, <<"p">>, <<"s">>), AbsIRI(<<"<", "x", ":", "s", ">">>, <<"x", ":", "s">>)}

PredNames == {PName(<<"p", ":">>, <<"p">>, <<>>), PName(<<"p", ":", "p">>, <<"p">>, <<"p">>), AbsIRI(<<"<", "x", ":", "p", ">">>, <<"x", ":", "p">>)}

ObjNames ==
    {PName(<<"p", ":">>, <<"p">>, <<>>), PName(<<"p", ":", "o">>, <<"p">>, <<"o">>), AbsIRI(<<"<", "x", ":", "o", ">">>, <<"x", ":", "o">>),
     QuotedRef(<<"\"", "l", "\"", "^", "^", "p", ":">>, <<"l">>, "pname", <<"p">>, <<>>), QuotedRef(<<"\"", "l", "\"", "^", "^", "p", ":", "t">>, <<"l">>, "pname", <<"p">>, <<"t">>)}

NameStmts == {[subj |-> s, po |-> <<[pred |-> p, objs |-> <<o>>]>>] : s \in SubjNames, p \in PredNames, o \in ObjNames}

\* the directive that binds p, one of these statements, and then nothing or a
\* second statement
NameStreams ==
    {Stream(<<PrefixAt, StmtItem(st, style)>> \o more, <<"\n">>, NoTail) :
        st \in NameStmts, style \in {"space", "newline", "comment"},
        more \in {<<>>, <<StmtItem(PStmt, "space")>>}}

InitName == InitWith(NameStreams, {<<>>}, {<<>>}, {<<"1", "7", "a">>})

SpecName == InitName /\ [][Next]_vars

\* none of the IRIs of triple t holds white space
NoWhiteSpace(t) ==
    /\ \A n \in 1..Len(t.SubjectIRI) : t.SubjectIRI[n] \notin WS
    /\ \A n \in 1..Len(t.PredicateIRI) : t.PredicateIRI[n] \notin WS
    /\ \A n \in 1..Len(t.DatatypeIRI) : t.DatatypeIRI[n] \notin WS
    /\ t.DatatypeIRI = <<>> => \A n \in 1..Len(t.Object) : t.Object[n] \notin WS

\* C22: no subject, predicate, IRI object or datatype of a triple handed to
\* the caller holds a space, tab, carriage return or line feed; a prefixed
\* name ends at the first white space after its colon, so that a name without
\* local part denotes the IRI bound to its label and the token after it is
\* read as the next term of the statement.
C22_NamesEndAtWhiteSpace ==
    /\ \A n \in 1..Len(dst) : NoWhiteSpace(dst[n])
    /\ \A k \in 1..calls :
          (AllNil(k - 1) /\ k <= Len(expect.stmts)) => (IsNil(errs[k]) /\ Appended(k) = Expected(k))

(***************************************************************************)
(* All streams together                                                    *)
(***************************************************************************)
Init == InitList \/ InitEnd \/ InitBase \/ InitPrefix \/ InitBlank \/ InitObj \/ InitLong \/ InitNum \/ InitRaw \/ InitFrame \/ InitRound \/ InitHalt \/ InitLine \/ InitName

Spec == Init /\ [][Next]_vars

====
